---- MODULE Spec2Model ----
(***************************************************************************)
(* Data Alchemist: the validation core (validateData / validateCell), the  *)
(* priority normalizer (PrioritizationInterface) and the five-step wizard  *)
(* (Home).                                                                 *)
(*                                                                         *)
(* JavaScript strings are TLA+ strings; Len, SubSeq and \o act on them as  *)
(* on sequences of characters.  A cell of a grid is `any` in the source:   *)
(* it is modelled as a record [t, v] where t is the JavaScript type        *)
(* ("string", "number", "null" for null/undefined) and v is the text that  *)
(* cell.toString() returns.  Row and column numbers inside issues are the  *)
(* 0-based indices of the source; sequences are 1-based.  A header list    *)
(* read from a spreadsheet may have an empty slot where the header row has *)
(* a blank cell (sheet_to_json with header: 1 leaves the index unset and   *)
(* Array.prototype.map keeps it unset): the slot is the text EmptySlot,    *)
(* which the header normalization [^a-z0-9] -> '_' can never produce.      *)
(***************************************************************************)
EXTENDS Integers, Sequences, FiniteSets, TLC

VARIABLES
    currentStep,        \* Home: wizard stage 0..4
    files,              \* Home: uploaded DataFile list
    validationErrors,   \* Home: issue list shown and used for gating
    priorities,         \* Home: the five weights, as exact fractions
    rules,              \* Home: the rule collection
    searchQuery,        \* Home: the text the grid is filtered by
    activeFile,         \* DataGrid: id of the file whose tab is open, '' for none
    editingCell,        \* DataGrid: << >> (null) or << row, col >>, 0-based
    editValue,          \* DataGrid: text of the edit box
    showRuleForm,       \* RulesBuilder: the rule form is open
    editingRule,        \* RulesBuilder: << >> (null) or << rule >>
    newRule,            \* RulesBuilder: the fields of the form
    query,              \* NaturalLanguageSearch: the text of the search input
    isAIMode,           \* NaturalLanguageSearch: enhanced mode is on
    isSearching,        \* NaturalLanguageSearch: the Search button shows its spinner
    inFlight,           \* handleSearch calls waiting in their 500 ms delay, oldest first
    uploadedFiles,      \* FileUpload: the files parsed so far
    isProcessing,       \* FileUpload: the processing notice is shown
    drops,              \* onDrop calls under way: the files left and those parsed
    arg,                \* input of the function under check
    ret,                \* its result
    pc                  \* "wizard", or "ready" / "done" / "thrown" around a function call

vars == <<currentStep, files, validationErrors, priorities, rules, searchQuery,
          activeFile, editingCell, editValue, showRuleForm, editingRule, newRule,
          query, isAIMode, isSearching, inFlight, uploadedFiles, isProcessing, drops,
          arg, ret, pc>>

gridVars == <<activeFile, editingCell, editValue>>

formVars == <<showRuleForm, editingRule, newRule>>

searchVars == <<query, isAIMode, isSearching, inFlight>>

uploadVars == <<uploadedFiles, isProcessing, drops>>

----------------------------------------------------------------------------
(* String primitives of the JavaScript runtime used by the source.         *)

Ch(s, i) == IF i >= 1 /\ i <= Len(s) THEN SubSeq(s, i, i) ELSE ""

\* the characters of s at positions i..j that exist (String.prototype.slice)
Slice(s, i, j) ==
    LET a == IF i < 1 THEN 1 ELSE i
        b == IF j > Len(s) THEN Len(s) ELSE j
    IN  IF b < a THEN "" ELSE SubSeq(s, a, b)

UpperChars == "ABCDEFGHIJKLMNOPQRSTUVWXYZ"
LowerChars == "abcdefghijklmnopqrstuvwxyz"

UpperSet == { Ch(UpperChars, i) : i \in 1..Len(UpperChars) }

LowerChar(c) ==
    IF c \in UpperSet
    THEN Ch(LowerChars, CHOOSE i \in 1..Len(UpperChars) : Ch(UpperChars, i) = c)
    ELSE c

RECURSIVE toLowerCase(_)
toLowerCase(s) ==
    IF s = "" THEN "" ELSE LowerChar(Ch(s, 1)) \o toLowerCase(Tail(s))

\* String.prototype.includes
includes(s, sub) ==
    \E i \in 1..(Len(s) - Len(sub) + 1) : SubSeq(s, i, i + Len(sub) - 1) = sub

startsWith(s, p) == Len(s) >= Len(p) /\ SubSeq(s, 1, Len(p)) = p

IsSpace(c) == c \in {" ", "\t", "\n", "\r"}

RECURSIVE trimStart(_)
trimStart(s) == IF s # "" /\ IsSpace(Ch(s, 1)) THEN trimStart(Tail(s)) ELSE s

RECURSIVE trimEnd(_)
trimEnd(s) ==
    IF s # "" /\ IsSpace(Ch(s, Len(s))) THEN trimEnd(SubSeq(s, 1, Len(s) - 1)) ELSE s

\* String.prototype.trim
trim(s) == trimEnd(trimStart(s))

Digits == "0123456789"
HexDigits == "0123456789abcdef"

DigitSet == { Ch(Digits, i) : i \in 1..Len(Digits) }
HexDigitSet == { Ch(HexDigits, i) : i \in 1..Len(HexDigits) }

IsDigit(c) == c \in DigitSet
IsHexDigit(c) == LowerChar(c) \in HexDigitSet

DigitVal(c) == (CHOOSE i \in 1..Len(HexDigits) : Ch(HexDigits, i) = LowerChar(c)) - 1

\* first index >= i of s that holds no decimal digit (Len(s)+1 when none)
RECURSIVE DigitsEnd(_, _)
DigitsEnd(s, i) == IF IsDigit(Ch(s, i)) THEN DigitsEnd(s, i + 1) ELSE i

RECURSIVE HexEnd(_, _)
HexEnd(s, i) == IF IsHexDigit(Ch(s, i)) THEN HexEnd(s, i + 1) ELSE i

\* value of the digits s[i..j-1] in the given radix
RECURSIVE DigitsValue(_, _, _, _)
DigitsValue(s, i, j, radix) ==
    IF j <= i THEN 0
    ELSE DigitsValue(s, i, j - 1, radix) * radix + DigitVal(Ch(s, j - 1))

\* parseInt(s) with no radix: leading white space, a sign, "0x" for radix 16,
\* then the longest run of digits; NaN when the run is empty.
parseInt(s0) ==
    LET s == trimStart(s0)
        sg == IF Ch(s, 1) \in {"+", "-"} THEN 1 ELSE 0
        hex == toLowerCase(Slice(s, sg + 1, sg + 2)) = "0x"
        b == sg + (IF hex THEN 2 ELSE 0) + 1
        e == IF hex THEN HexEnd(s, b) ELSE DigitsEnd(s, b)
        mag == DigitsValue(s, b, e, IF hex THEN 16 ELSE 10)
    IN  IF e = b THEN [nan |-> TRUE, val |-> 0]
        ELSE [nan |-> FALSE, val |-> IF Ch(s, 1) = "-" THEN 0 - mag ELSE mag]

RECURSIVE AllZero(_, _, _)
AllZero(s, i, j) == j <= i \/ (Ch(s, i) = "0" /\ AllZero(s, i + 1, j))

\* parseFloat(s): the longest prefix sign? digits [. digits] (or Infinity);
\* the source only compares the result with 0, so the result is kept as
\* nan / sign class ("neg", "zero", "pos").
parseFloat(s0) ==
    LET s == trimStart(s0)
        sg == IF Ch(s, 1) \in {"+", "-"} THEN 1 ELSE 0
        neg == Ch(s, 1) = "-"
        b == sg + 1
        a == DigitsEnd(s, b)
        f == IF Ch(s, a) = "." THEN DigitsEnd(s, a + 1) ELSE a
        nd == (a - b) + (IF f > a THEN f - a - 1 ELSE 0)
        zero == AllZero(s, b, a) /\ (f > a => AllZero(s, a + 1, f))
    IN  IF Slice(s, b, b + 7) = "Infinity"
        THEN [nan |-> FALSE, cls |-> IF neg THEN "neg" ELSE "pos"]
        ELSE IF nd = 0 THEN [nan |-> TRUE, cls |-> "zero"]
        ELSE [nan |-> FALSE, cls |-> IF zero THEN "zero" ELSE IF neg THEN "neg" ELSE "pos"]

\* s.replace(/[$,]/g, '')
RECURSIVE stripCurrency(_)
stripCurrency(s) ==
    IF s = "" THEN ""
    ELSE (IF Ch(s, 1) \in {"$", ","} THEN "" ELSE Ch(s, 1)) \o stripCurrency(Tail(s))

\* a test that asks for an '@' only
emailRegexTestAnyAt(s) == includes(s, "@")

\* /^[^\s@]+@[^\s@]+\.[^\s@]+$/.test(s)
emailRegexTest(s) ==
    \E i \in 2..Len(s) : \E j \in (i + 2)..(Len(s) - 1) :
        /\ Ch(s, i) = "@"
        /\ Ch(s, j) = "."
        /\ \A k \in 1..Len(s) : k # i => ~IsSpace(Ch(s, k)) /\ Ch(s, k) # "@"

----------------------------------------------------------------------------
(* JSON.parse(s) throws or not: a recognizer of the JSON grammar.  Each    *)
(* Json* operator takes the text and the index where the construct must    *)
(* start and returns the index after it, or 0 when the text is no JSON.    *)

RECURSIVE SkipWs(_, _)
SkipWs(s, i) == IF IsSpace(Ch(s, i)) THEN SkipWs(s, i + 1) ELSE i

RECURSIVE JsonStringBody(_, _)
JsonStringBody(s, i) ==
    LET c == Ch(s, i) IN
    IF c = "" \/ c \in {"\t", "\n", "\r"} THEN 0
    ELSE IF c = "\"" THEN i + 1
    ELSE IF c = "\\" THEN
        IF Ch(s, i + 1) # "" /\ includes("\"\\/bfnrt", Ch(s, i + 1))
        THEN JsonStringBody(s, i + 2)
        ELSE IF Ch(s, i + 1) = "u" /\ HexEnd(s, i + 2) >= i + 6
        THEN JsonStringBody(s, i + 6)
        ELSE 0
    ELSE JsonStringBody(s, i + 1)

JsonString(s, i) == IF Ch(s, i) = "\"" THEN JsonStringBody(s, i + 1) ELSE 0

JsonNumber(s, i) ==
    LET b == IF Ch(s, i) = "-" THEN i + 1 ELSE i
        a == DigitsEnd(s, b)
        intOk == a > b /\ (Ch(s, b) = "0" => a = b + 1)
        f == IF Ch(s, a) = "." THEN DigitsEnd(s, a + 1) ELSE a
        fracOk == Ch(s, a) = "." => f > a + 1
        x == IF Ch(s, f) \in {"e", "E"}
             THEN (IF Ch(s, f + 1) \in {"+", "-"} THEN f + 2 ELSE f + 1)
             ELSE f
        e == IF x > f THEN DigitsEnd(s, x) ELSE f
        expOk == x > f => e > x
    IN  IF intOk /\ fracOk /\ expOk THEN e ELSE 0

RECURSIVE JsonValue(_, _)
RECURSIVE JsonElements(_, _)
RECURSIVE JsonMembers(_, _)

JsonValue(s, i0) ==
    LET i == SkipWs(s, i0)
        c == Ch(s, i)
    IN  IF c = "{" THEN
            (IF Ch(s, SkipWs(s, i + 1)) = "}" THEN SkipWs(s, i + 1) + 1
             ELSE JsonMembers(s, i + 1))
        ELSE IF c = "[" THEN
            (IF Ch(s, SkipWs(s, i + 1)) = "]" THEN SkipWs(s, i + 1) + 1
             ELSE JsonElements(s, i + 1))
        ELSE IF c = "\"" THEN JsonString(s, i)
        ELSE IF Slice(s, i, i + 3) = "true" THEN i + 4
        ELSE IF Slice(s, i, i + 4) = "false" THEN i + 5
        ELSE IF Slice(s, i, i + 3) = "null" THEN i + 4
        ELSE JsonNumber(s, i)

JsonElements(s, i) ==
    LET v == JsonValue(s, i)
        k == SkipWs(s, v)
    IN  IF v = 0 THEN 0
        ELSE IF Ch(s, k) = "," THEN JsonElements(s, k + 1)
        ELSE IF Ch(s, k) = "]" THEN k + 1
        ELSE 0

JsonMembers(s, i) ==
    LET n == JsonString(s, SkipWs(s, i))
        c == SkipWs(s, n)
        v == IF n # 0 /\ Ch(s, c) = ":" THEN JsonValue(s, c + 1) ELSE 0
        k == SkipWs(s, v)
    IN  IF v = 0 THEN 0
        ELSE IF Ch(s, k) = "," THEN JsonMembers(s, k + 1)
        ELSE IF Ch(s, k) = "}" THEN k + 1
        ELSE 0

\* TRUE iff JSON.parse(s) returns, FALSE iff it throws
JSONparse(s) ==
    LET e == JsonValue(s, 1) IN e # 0 /\ SkipWs(s, e) = Len(s) + 1

----------------------------------------------------------------------------
(* Cells and issues.                                                       *)

Str(s) == [t |-> "string", v |-> s]
Num(s) == [t |-> "number", v |-> s]     \* s: what Number.prototype.toString gives
Null == [t |-> "null", v |-> ""]        \* null, undefined, a column the row lacks

\* !cell
Falsy(cell) ==
    \/ cell.t = "null"
    \/ cell.t = "string" /\ cell.v = ""
    \/ cell.t = "number" /\ cell.v \in {"0", "NaN"}

\* cell.toString()
toString(cell) == cell.v

\* ValidationError without its random id
Issue(fileId, row, column, field, message, severity, type, suggestion) ==
    [fileId |-> fileId, row |-> row, column |-> column, field |-> field,
     message |-> message, severity |-> severity, type |-> type,
     suggestion |-> suggestion]

\* row[colIndex]
CellAt(row, c) == IF c <= Len(row) THEN row[c] ELSE Null

----------------------------------------------------------------------------
(* validateCell: the checks of one cell, each the sequence of issues it    *)
(* pushes (empty or one issue).                                            *)

\* the gate `!cell || cell.toString().trim() === ''`
IsEmptyCell(cell) == Falsy(cell) \/ trim(toString(cell)) = ""

EmptyCheck(file, rowIndex, colIndex, header, cell) ==
    LET headerLower == toLowerCase(header) IN
    IF includes(headerLower, "id") \/ includes(headerLower, "name")
          \/ includes(headerLower, "email")
    THEN << Issue(file.id, rowIndex, colIndex, header,
                  "Missing required value in " \o header, "error", "missing",
                  "Provide a value for this required field") >>
    ELSE << >>

EmailCheck(file, rowIndex, colIndex, header, cellStr) ==
    IF includes(toLowerCase(header), "email") /\ ~emailRegexTest(cellStr)
    THEN << Issue(file.id, rowIndex, colIndex, header,
                  "Invalid email format: " \o cellStr, "error", "malformed",
                  "Use format: user@domain.com") >>
    ELSE << >>

PriorityCheck(file, rowIndex, colIndex, header, cellStr) ==
    LET priority == parseInt(cellStr) IN
    IF includes(toLowerCase(header), "priority")
          /\ (priority.nan \/ priority.val < 1 \/ priority.val > 5)
    THEN << Issue(file.id, rowIndex, colIndex, header,
                  "Priority must be between 1-5, got: " \o cellStr, "error", "range",
                  "Use values 1 (low) to 5 (high)") >>
    ELSE << >>

DurationCheck(file, rowIndex, colIndex, header, cellStr) ==
    LET duration == parseFloat(cellStr) IN
    IF includes(toLowerCase(header), "duration")
          /\ (duration.nan \/ duration.cls \in {"neg", "zero"})
    THEN << Issue(file.id, rowIndex, colIndex, header,
                  "Duration must be a positive number, got: " \o cellStr, "error", "range",
                  "Use positive numbers (hours/days)") >>
    ELSE << >>

\* the budget check reporting with severity error
BudgetCheckAsError(file, rowIndex, colIndex, header, cellStr) ==
    LET budget == parseFloat(stripCurrency(cellStr)) IN
    IF includes(toLowerCase(header), "budget")
          /\ (budget.nan \/ budget.cls = "neg")
    THEN << Issue(file.id, rowIndex, colIndex, header,
                  "Budget must be a positive number, got: " \o cellStr, "error", "range",
                  "Use positive numbers without currency symbols") >>
    ELSE << >>

BudgetCheck(file, rowIndex, colIndex, header, cellStr) ==
    LET budget == parseFloat(stripCurrency(cellStr)) IN
    IF includes(toLowerCase(header), "budget")
          /\ (budget.nan \/ budget.cls = "neg")
    THEN << Issue(file.id, rowIndex, colIndex, header,
                  "Budget must be a positive number, got: " \o cellStr, "warning", "range",
                  "Use positive numbers without currency symbols") >>
    ELSE << >>

SkillsCheck(file, rowIndex, colIndex, header, cellStr) ==
    IF includes(toLowerCase(header), "skill")
          /\ (includes(cellStr, ";") \/ includes(cellStr, "|"))
    THEN << Issue(file.id, rowIndex, colIndex, header,
                  "Skills should be comma-separated, got: " \o cellStr, "warning", "malformed",
                  "Use commas to separate skills: \"JavaScript, React, Node.js\"") >>
    ELSE << >>

JsonCheck(file, rowIndex, colIndex, header, cellStr) ==
    IF (startsWith(cellStr, "{") \/ startsWith(cellStr, "[")) /\ ~JSONparse(cellStr)
    THEN << Issue(file.id, rowIndex, colIndex, header,
                  "Invalid JSON format in " \o header, "error", "malformed",
                  "Fix JSON syntax or use plain text") >>
    ELSE << >>

\* the typed checks as an else-if chain: the first failing check alone reports
TypedChecksElseIf(file, rowIndex, colIndex, header, cellStr) ==
    LET all == << EmailCheck(file, rowIndex, colIndex, header, cellStr),
                  PriorityCheck(file, rowIndex, colIndex, header, cellStr),
                  DurationCheck(file, rowIndex, colIndex, header, cellStr),
                  BudgetCheck(file, rowIndex, colIndex, header, cellStr),
                  SkillsCheck(file, rowIndex, colIndex, header, cellStr),
                  JsonCheck(file, rowIndex, colIndex, header, cellStr) >>
    IN  IF \E k \in 1..Len(all) : all[k] # << >>
        THEN all[CHOOSE k \in 1..Len(all) :
                    all[k] # << >> /\ \A j \in 1..(k - 1) : all[j] = << >>]
        ELSE << >>

\* the checks after the emptiness gate, each `if` on its own, in source order
TypedChecks(file, rowIndex, colIndex, header, cellStr) ==
       EmailCheck(file, rowIndex, colIndex, header, cellStr)
    \o PriorityCheck(file, rowIndex, colIndex, header, cellStr)
    \o DurationCheck(file, rowIndex, colIndex, header, cellStr)
    \o BudgetCheck(file, rowIndex, colIndex, header, cellStr)
    \o SkillsCheck(file, rowIndex, colIndex, header, cellStr)
    \o JsonCheck(file, rowIndex, colIndex, header, cellStr)

validateCell(file, rowIndex, colIndex, header, cell) ==
    IF IsEmptyCell(cell)
    THEN EmptyCheck(file, rowIndex, colIndex, header, cell)
    ELSE TypedChecks(file, rowIndex, colIndex, header, trim(toString(cell)))

----------------------------------------------------------------------------
(* validateData: missing columns, then every cell, then duplicate ids.     *)

\* getRequiredColumns with 'email' left out of the clients list
getRequiredColumnsNoEmail(fileType) ==
    CASE fileType = "clients" -> << "id", "name", "priority" >>
      [] fileType = "workers" -> << "id", "name", "skills", "availability" >>
      [] fileType = "tasks" -> << "id", "title", "duration", "priority" >>
      [] OTHER -> << "id" >>

getRequiredColumns(fileType) ==
    CASE fileType = "clients" -> << "id", "name", "email", "priority" >>
      [] fileType = "workers" -> << "id", "name", "skills", "availability" >>
      [] fileType = "tasks" -> << "id", "title", "duration", "priority" >>
      [] OTHER -> << "id" >>

\* the match in one direction only: the header contains the required name
HeaderMatchesOneWay(header, col) ==
    includes(toLowerCase(header), toLowerCase(col))

\* the predicate of headers.some(...) for one required column
HeaderMatches(header, col) ==
    \/ includes(toLowerCase(header), toLowerCase(col))
    \/ includes(toLowerCase(col), toLowerCase(header))

\* an index of the header array that was never assigned
EmptySlot == "<empty slot>"

\* headers.some(...) does not visit empty slots
IsMissing(file, col) ==
    ~\E h \in 1..Len(file.headers) :
        file.headers[h] # EmptySlot /\ HeaderMatches(file.headers[h], col)

\* requiredColumns.filter(...) from position i on
RECURSIVE MissingFrom(_, _, _)
MissingFrom(file, requiredColumns, i) ==
    IF i > Len(requiredColumns) THEN << >>
    ELSE (IF IsMissing(file, requiredColumns[i]) THEN << requiredColumns[i] >> ELSE << >>)
         \o MissingFrom(file, requiredColumns, i + 1)

missingColumns(file) == MissingFrom(file, getRequiredColumns(file.type), 1)

MissingIssue(file, col) ==
    Issue(file.id, -1, -1, col, "Missing required column: " \o col, "error", "missing",
          "Add a column for " \o col \o " or rename an existing column")

MissingIssues(file) ==
    LET m == missingColumns(file) IN [i \in 1..Len(m) |-> MissingIssue(file, m[i])]

\* the issues of the cells r, c .. of row r (file.headers.forEach, which
\* does not visit empty slots)
RECURSIVE RowIssues(_, _, _)
RowIssues(file, r, c) ==
    IF c > Len(file.headers) THEN << >>
    ELSE (IF file.headers[c] = EmptySlot THEN << >>
          ELSE validateCell(file, r - 1, c - 1, file.headers[c], CellAt(file.data[r], c)))
         \o RowIssues(file, r, c + 1)

\* the issues of rows r .. (file.data.forEach)
RECURSIVE CellIssues(_, _)
CellIssues(file, r) ==
    IF r > Len(file.data) THEN << >>
    ELSE RowIssues(file, r, 1) \o CellIssues(file, r + 1)

\* findIdColumn without the exclusions: the first header containing 'id'
findIdColumnAnyId(headers) ==
    IF \E i \in 1..Len(headers) : includes(toLowerCase(headers[i]), "id")
    THEN (CHOOSE i \in 1..Len(headers) :
              includes(toLowerCase(headers[i]), "id")
                  /\ \A j \in 1..(i - 1) : ~includes(toLowerCase(headers[j]), "id")) - 1
    ELSE -1

IdHeader(header) ==
    LET h == toLowerCase(header) IN
    includes(h, "id") /\ ~includes(h, "client") /\ ~includes(h, "task") /\ ~includes(h, "worker")

\* headers.findIndex(...) visits empty slots as undefined, and
\* undefined.toLowerCase() is a TypeError: it is raised when an empty slot
\* comes before the first qualifying header
findIdColumnThrows(headers) ==
    \E i \in 1..Len(headers) :
        headers[i] = EmptySlot /\ \A j \in 1..(i - 1) : ~IdHeader(headers[j])

\* headers.findIndex(...): 0-based, -1 when no header qualifies
findIdColumn(headers) ==
    IF \E i \in 1..Len(headers) : IdHeader(headers[i])
    THEN (CHOOSE i \in 1..Len(headers) :
              IdHeader(headers[i]) /\ \A j \in 1..(i - 1) : ~IdHeader(headers[j])) - 1
    ELSE -1

\* the comparison with the row just before r only
IsDuplicateOfPrevious(file, idColumn, r) ==
    LET id == CellAt(file.data[r], idColumn + 1) IN
    ~Falsy(id) /\ r > 1 /\ CellAt(file.data[r - 1], idColumn + 1) = id

\* `id && ids.has(id)` at row r, ids holding the values of the rows before r
IsDuplicate(file, idColumn, r) ==
    LET id == CellAt(file.data[r], idColumn + 1) IN
    ~Falsy(id) /\ \E q \in 1..(r - 1) : CellAt(file.data[q], idColumn + 1) = id

DuplicateIssue(file, idColumn, r) ==
    Issue(file.id, r - 1, idColumn, file.headers[idColumn + 1],
          "Duplicate ID: " \o toString(CellAt(file.data[r], idColumn + 1)),
          "error", "duplicate", "Ensure all IDs are unique")

RECURSIVE DuplicateScan(_, _, _)
DuplicateScan(file, idColumn, r) ==
    IF r > Len(file.data) THEN << >>
    ELSE (IF IsDuplicate(file, idColumn, r)
          THEN << DuplicateIssue(file, idColumn, r) >> ELSE << >>)
         \o DuplicateScan(file, idColumn, r + 1)

DuplicateIssues(file) ==
    LET idColumn == findIdColumn(file.headers) IN
    IF idColumn # -1 THEN DuplicateScan(file, idColumn, 1) ELSE << >>

\* validateData with the duplicate scan placed before the cell loop
validateDataDuplicatesFirst(file) ==
    MissingIssues(file) \o DuplicateIssues(file) \o CellIssues(file, 1)

\* the list validateData returns when it returns
validateData(file) ==
    MissingIssues(file) \o CellIssues(file, 1) \o DuplicateIssues(file)

\* validateData ends in an exception instead: nothing in it catches the
\* TypeError of findIdColumn
validateDataThrows(file) == findIdColumnThrows(file.headers)

----------------------------------------------------------------------------
(* Priority weights.  A weight is a fraction << n, d >> in lowest terms,   *)
(* d > 0, and the arithmetic on weights is exact: the rounding of the      *)
(* IEEE doubles of the source is not part of the model.                    *)

RECURSIVE GCD(_, _)
GCD(a, b) == IF b = 0 THEN a ELSE GCD(b, a % b)

Frac(n, d) ==
    LET g == GCD(IF n < 0 THEN 0 - n ELSE n, d) IN << n \div g, d \div g >>

FAdd(a, b) ==
    LET l == (a[2] \div GCD(a[2], b[2])) * b[2]
    IN  Frac(a[1] * (l \div a[2]) + b[1] * (l \div b[2]), l)

FDiv(a, b) == Frac(a[1] * b[2], a[2] * b[1])

FLess(a, b) == a[1] * b[2] < b[1] * a[2]

FAbsDiff(a, b) == IF FLess(a, b) THEN FAdd(b, Frac(0 - a[1], a[2])) ELSE FAdd(a, Frac(0 - b[1], b[2]))

\* the keys of PriorityWeights in the order Object.values visits them
WeightKeys ==
    << "priorityLevel", "taskFulfillment", "fairness", "efficiency", "resourceUtilization" >>

\* Object.values(w).reduce((sum, val) => sum + val, 0)
RECURSIVE SumFrom(_, _)
SumFrom(w, i) ==
    IF i > Len(WeightKeys) THEN Frac(0, 1) ELSE FAdd(w[WeightKeys[i]], SumFrom(w, i + 1))

Total(w) == SumFrom(w, 1)

Weights(a, b, c, d, e) ==
    [priorityLevel |-> Frac(a, 100), taskFulfillment |-> Frac(b, 100),
     fairness |-> Frac(c, 100), efficiency |-> Frac(d, 100),
     resourceUtilization |-> Frac(e, 100)]

DefaultWeights == Weights(30, 25, 20, 15, 10)

templates ==
    << [id |-> "balanced", weights |-> Weights(20, 20, 20, 20, 20)],
       [id |-> "priority-focused", weights |-> Weights(50, 20, 10, 10, 10)],
       [id |-> "efficiency-first", weights |-> Weights(10, 20, 10, 50, 10)],
       [id |-> "fair-distribution", weights |-> Weights(10, 20, 50, 10, 10)] >>

\* Normalized with the total taken before the edited weight is replaced
NormalizedStaleTotal(w, key, value) ==
    LET newPriorities == [w EXCEPT ![key] = value]
        total == Total(w)
    IN  IF FLess(Frac(0, 1), total)
        THEN [k \in DOMAIN newPriorities |-> FDiv(newPriorities[k], total)]
        ELSE newPriorities

\* Normalized that scales the other four weights and leaves the edited one
\* at the requested value
NormalizedOthersOnly(w, key, value) ==
    LET newPriorities == [w EXCEPT ![key] = value]
        total == Total(newPriorities)
    IN  IF FLess(Frac(0, 1), total)
        THEN [k \in DOMAIN newPriorities |->
                 IF k = key THEN value ELSE FDiv(newPriorities[k], total)]
        ELSE newPriorities

\* the value handleSliderChange passes on to onPrioritiesUpdate
Normalized(w, key, value) ==
    LET newPriorities == [w EXCEPT ![key] = value]
        total == Total(newPriorities)
    IN  IF FLess(Frac(0, 1), total)
        THEN [k \in DOMAIN newPriorities |-> FDiv(newPriorities[k], total)]
        ELSE newPriorities

\* the Continue to Export button is enabled: !(Math.abs(total - 1) >= 0.01)
ExportEnabled(w) == FLess(FAbsDiff(Total(w), Frac(1, 1)), Frac(1, 100))

----------------------------------------------------------------------------
(* Home: the wizard.  DataGrid is mounted exactly while currentStep = 1    *)
(* and files is not empty; its validation effect runs on mount and on      *)
(* every change of files and hands the fresh list to Home.  An exception   *)
(* of validateData inside that effect ends the application: pc = "crashed".*)

\* the form as useState and resetForm set it
BlankRule ==
    [name |-> "", type |-> "co-run", description |-> "", conditions |-> << >>,
     actions |-> << >>, enabled |-> TRUE, priority |-> [nan |-> FALSE, val |-> 1]]

\* the initial values of the state this section does not use
InitLocal ==
    /\ rules = << >>
    /\ searchQuery = ""
    /\ activeFile = ""
    /\ editingCell = << >>
    /\ editValue = ""
    /\ showRuleForm = FALSE
    /\ editingRule = << >>
    /\ newRule = BlankRule
    /\ query = ""
    /\ isAIMode = FALSE
    /\ isSearching = FALSE
    /\ inFlight = << >>
    /\ uploadedFiles = << >>
    /\ isProcessing = FALSE
    /\ drops = << >>

\* DataGrid validation effect: validateData of every file, concatenated
RECURSIVE ValidateFrom(_, _)
ValidateFrom(fs, i) ==
    IF i > Len(fs) THEN << >> ELSE validateData(fs[i]) \o ValidateFrom(fs, i + 1)

ValidateAll(fs) == ValidateFrom(fs, 1)

\* validationErrors.filter(e => e.severity === 'error').length > 0
HasErrors(errors) == \E i \in 1..Len(errors) : errors[i].severity = "error"

\* the fresh pass appended to the list already held, instead of replacing it
ErrorsAfterRenderMerged(step, fs, old) ==
    IF step = 1 /\ Len(fs) > 0 THEN old \o ValidateAll(fs) ELSE old

\* the list Home holds after rendering step `step` with files `fs`
ErrorsAfterRender(step, fs, old) ==
    IF step = 1 /\ Len(fs) > 0 THEN ValidateAll(fs) ELSE old

\* JSON.parse(JSON.stringify(data)): a copy that shares nothing with data;
\* strings and finite numbers come back as they were, undefined and NaN as null
JSONRoundTrip(data) ==
    [r \in 1..Len(data) |->
        [c \in 1..Len(data[r]) |->
            IF data[r][c].t = "number" /\ data[r][c].v \in { "NaN", "Infinity", "-Infinity" }
            THEN Null ELSE data[r][c]]]

DataFile(id, name, type, headers, data) ==
    [id |-> id, name |-> name, type |-> type, headers |-> headers, data |-> data,
     originalData |-> JSONRoundTrip(data), errors |-> << >>]

\* the local state of DataGrid after rendering step `step` with files `fs`:
\* kept while the grid stays mounted, initial (with the first file's tab opened
\* by the effect) when it is mounted anew, gone when it is not mounted
GridAfterRender(step, fs, wasMounted, old) ==
    IF step = 1 /\ Len(fs) > 0
    THEN (IF wasMounted THEN old ELSE << fs[1].id, << >>, "" >>)
    ELSE << "", << >>, "" >>

\* the local state of RulesBuilder likewise: kept only while it stays mounted
FormAfterRender(step, wasMounted, old) ==
    IF step = 2 /\ wasMounted THEN old ELSE << FALSE, << >>, BlankRule >>

Row(a, b, c, d) == << Str(a), Str(b), Str(c), Str(d) >>

\* files a user uploads: one without issues, one with a warning only, one with
\* errors, and one whose budget column holds a text, a negative amount, an
\* amount with currency marks and an empty cell
SampleFiles ==
    { DataFile("t", "tasks.csv", "tasks", << "id", "title", "duration", "priority" >>,
               << Row("T1", "Build", "2", "3") >>),
      DataFile("w", "workers.csv", "workers", << "id", "name", "skills", "availability" >>,
               << Row("W1", "Ann", "js;react", "full") >>),
      DataFile("c", "clients.csv", "clients", << "id", "name", "email", "priority" >>,
               << Row("C1", "Bob", "bob@", "9") >>),
      DataFile("b", "budget.csv", "tasks",
               << "id", "title", "duration", "priority", "budget" >>,
               << Row("T1", "Build", "2", "3") \o << Str("abc") >>,
                  Row("T2", "Test", "1", "2") \o << Str("-1") >>,
                  Row("T3", "Ship", "1", "2") \o << Str("$1,000") >>,
                  Row("T4", "Plan", "1", "2") \o << Str("") >> >>) }

MaxBatch == 1

Batches == UNION { [1..n -> SampleFiles] : n \in 1..MaxBatch }

SetGrid(g) == activeFile' = g[1] /\ editingCell' = g[2] /\ editValue' = g[3]

SetForm(f) == showRuleForm' = f[1] /\ editingRule' = f[2] /\ newRule' = f[3]

\* the local state of NaturalLanguageSearch, mounted with DataGrid: kept while
\* it stays mounted, initial otherwise.  (A handleSearch that waits in its
\* delay outlives the component: its onSearch is Home's setSearchQuery.)
SearchAfterRender(step, fs, wasMounted, old) ==
    IF step = 1 /\ Len(fs) > 0 /\ wasMounted THEN old ELSE << "", FALSE, FALSE >>

SetSearch(v) == query' = v[1] /\ isAIMode' = v[2] /\ isSearching' = v[3]

\* the handleSearch calls in their delay when the search component goes: they
\* run on, and what they set on the component that is gone changes nothing
InFlightAfterRender(step, fs, old) ==
    IF step = 1 /\ Len(fs) > 0 THEN old
    ELSE [i \in 1..Len(old) |-> [old[i] EXCEPT !.live = FALSE]]

\* the local state of FileUpload likewise (step 0); the onDrop calls of an
\* instance that is gone set the state of nothing that is shown
UploadAfterRender(step, wasMounted, old) ==
    IF step = 0 /\ wasMounted THEN old ELSE << << >>, FALSE, << >> >>

SetUpload(v) == uploadedFiles' = v[1] /\ isProcessing' = v[2] /\ drops' = v[3]

\* FileUpload handleContinue -> Home handleFilesUploaded
handleFilesUploaded(newFiles) ==
    /\ pc = "wizard"
    /\ currentStep = 0
    /\ Len(newFiles) > 0
    /\ files' = newFiles
    /\ currentStep' = 1
    /\ IF \E i \in 1..Len(newFiles) : validateDataThrows(newFiles[i])
       THEN pc' = "crashed" /\ validationErrors' = validationErrors
       ELSE pc' = pc /\ validationErrors' = ErrorsAfterRender(1, newFiles, validationErrors)
    /\ SetGrid(GridAfterRender(1, newFiles, FALSE, gridVars))
    /\ SetSearch(SearchAfterRender(1, newFiles, FALSE, << query, isAIMode, isSearching >>))
    /\ SetUpload(UploadAfterRender(1, TRUE, uploadVars))
    /\ UNCHANGED <<priorities, rules, searchQuery, formVars, inFlight, arg, ret>>

\* step indicator: onClick={() => setCurrentStep(step.id)}; the open rule form
\* is an overlay over the whole page (fixed inset-0) and takes the click.
\* (ret, the documents of the last export, is forgotten with the page.)
StepClick(id) ==
    /\ pc = "wizard"
    /\ ~showRuleForm
    /\ currentStep' = id
    /\ validationErrors' = ErrorsAfterRender(id, files, validationErrors)
    /\ SetGrid(GridAfterRender(id, files, currentStep = 1 /\ Len(files) > 0, gridVars))
    /\ SetForm(FormAfterRender(id, currentStep = 2, formVars))
    /\ SetSearch(SearchAfterRender(id, files, currentStep = 1 /\ Len(files) > 0,
                                   << query, isAIMode, isSearching >>))
    /\ inFlight' = InFlightAfterRender(id, files, inFlight)
    /\ SetUpload(UploadAfterRender(id, currentStep = 0, uploadVars))
    /\ ret' = << >>
    /\ UNCHANGED <<files, priorities, rules, searchQuery, arg, pc>>

\* Continue to Rules, disabled while an issue of severity error is listed
ContinueToRules ==
    /\ pc = "wizard"
    /\ currentStep = 1 /\ Len(files) > 0
    /\ ~HasErrors(validationErrors)
    /\ currentStep' = 2
    /\ SetGrid(GridAfterRender(2, files, TRUE, gridVars))
    /\ SetSearch(SearchAfterRender(2, files, TRUE, << query, isAIMode, isSearching >>))
    /\ inFlight' = InFlightAfterRender(2, files, inFlight)
    /\ UNCHANGED <<files, validationErrors, priorities, rules, searchQuery, formVars,
                   arg, ret, pc>>
    /\ UNCHANGED uploadVars

\* RulesBuilder onNext
ContinueToPriorities ==
    /\ pc = "wizard"
    /\ currentStep = 2
    /\ ~showRuleForm
    /\ currentStep' = 3
    /\ SetForm(FormAfterRender(3, TRUE, formVars))
    /\ UNCHANGED <<files, validationErrors, priorities, rules, searchQuery, gridVars, arg, ret, pc>>
    /\ UNCHANGED searchVars
    /\ UNCHANGED uploadVars

\* Continue to Export, disabled while Math.abs(total - 1) >= 0.01
ContinueToExport ==
    /\ pc = "wizard"
    /\ currentStep = 3
    /\ ExportEnabled(priorities)
    /\ currentStep' = 4
    /\ UNCHANGED <<files, validationErrors, priorities, arg, ret, pc>>
    /\ UNCHANGED <<rules, searchQuery, gridVars, formVars>>
    /\ UNCHANGED searchVars
    /\ UNCHANGED uploadVars

\* positions of the range slider (min 0, max 1, step 0.01), in hundredths:
\* those tried inside the wizard, and those tried on the normalizer alone
WizardSliderValues == {0}
SliderValues == {0, 60}

\* largest denominator a weight may reach in the model
MaxDen == 26

WithinDen(w) == \A k \in DOMAIN w : w[k][2] <= MaxDen

handleSliderChange(key, value) ==
    /\ pc = "wizard"
    /\ currentStep = 3
    /\ WithinDen(Normalized(priorities, key, Frac(value, 100)))
    /\ priorities' = Normalized(priorities, key, Frac(value, 100))
    /\ UNCHANGED <<currentStep, files, validationErrors, arg, ret, pc>>
    /\ UNCHANGED <<rules, searchQuery, gridVars, formVars>>
    /\ UNCHANGED searchVars
    /\ UNCHANGED uploadVars

\* applyTemplate that hands the template's first weight to the normalizer
applyTemplateNormalizing(template) ==
    /\ pc = "wizard"
    /\ currentStep = 3
    /\ priorities' = Normalized(priorities, "priorityLevel", template.weights.priorityLevel)
    /\ UNCHANGED <<currentStep, files, validationErrors, arg, ret, pc>>
    /\ UNCHANGED <<rules, searchQuery, gridVars, formVars>>
    /\ UNCHANGED searchVars
    /\ UNCHANGED uploadVars

applyTemplate(template) ==
    /\ pc = "wizard"
    /\ currentStep = 3
    /\ priorities' = template.weights
    /\ UNCHANGED <<currentStep, files, validationErrors, arg, ret, pc>>
    /\ UNCHANGED <<rules, searchQuery, gridVars, formVars>>
    /\ UNCHANGED searchVars
    /\ UNCHANGED uploadVars

resetToDefault ==
    /\ pc = "wizard"
    /\ currentStep = 3
    /\ priorities' = DefaultWeights
    /\ UNCHANGED <<currentStep, files, validationErrors, arg, ret, pc>>
    /\ UNCHANGED <<rules, searchQuery, gridVars, formVars>>
    /\ UNCHANGED searchVars
    /\ UNCHANGED uploadVars

\* ExportPanel generateRulesJSON (the export time stamp is left out)
generateRulesJSON(rs, ps) ==
    [rules |-> [i \in 1..Len(rs) |->
                   [id |-> rs[i].id, name |-> rs[i].name, type |-> rs[i].type,
                    description |-> rs[i].description, enabled |-> rs[i].enabled,
                    priority |-> rs[i].priority, conditions |-> rs[i].conditions,
                    actions |-> rs[i].actions]],
     priorities |-> ps,
     metadata |-> [totalRules |-> Len(rs),
                   activeRules |-> Len(SelectSeq(rs, LAMBDA r : r.enabled)),
                   version |-> "1.0.0"]]

\* files.flatMap(file => file.errors)
RECURSIVE FlatErrors(_, _)
FlatErrors(fs, i) ==
    IF i > Len(fs) THEN << >> ELSE fs[i].errors \o FlatErrors(fs, i + 1)

\* allErrors.reduce(...): the number of issues for every value of the field
\* (type or severity) that occurs
CountBy(errors, field) ==
    [k \in { errors[i][field] : i \in 1..Len(errors) } |->
        Cardinality({ i \in 1..Len(errors) : errors[i][field] = k })]

RECURSIVE TotalRows(_, _)
TotalRows(fs, i) ==
    IF i > Len(fs) THEN 0 ELSE Len(fs[i].data) + TotalRows(fs, i + 1)

\* ExportPanel generateValidationReport (the time stamp is left out)
generateValidationReport(fs) ==
    LET allErrors == FlatErrors(fs, 1) IN
    [summary |-> [totalFiles |-> Len(fs),
                  totalRows |-> TotalRows(fs, 1),
                  totalErrors |-> Len(allErrors),
                  errorsByType |-> CountBy(allErrors, "type"),
                  errorsBySeverity |-> CountBy(allErrors, "severity")],
     files |-> [i \in 1..Len(fs) |->
                   [name |-> fs[i].name, type |-> fs[i].type, rows |-> Len(fs[i].data),
                    columns |-> Len(fs[i].headers), errors |-> Len(fs[i].errors),
                    errorDetails |-> fs[i].errors]]]

\* the two switches of exportConfig that decide which documents are written
ExportConfigs == [includeRulesJson : BOOLEAN, includeValidationReport : BOOLEAN]

\* ExportPanel handleExport: ret is << the rules.json document, the
\* validation_report.json document >>, each << >> when switched off.  (The
\* data files written before them are not part of ret.)
handleExport(exportConfig) ==
    /\ pc = "wizard"
    /\ currentStep = 4
    /\ ret' = << IF exportConfig.includeRulesJson
                 THEN << generateRulesJSON(rules, priorities) >> ELSE << >>,
                 IF exportConfig.includeValidationReport
                 THEN << generateValidationReport(files) >> ELSE << >> >>
    /\ UNCHANGED <<currentStep, files, validationErrors, priorities, rules, searchQuery,
                   gridVars, formVars, arg, pc>>
    /\ UNCHANGED searchVars
    /\ UNCHANGED uploadVars

Init ==
    /\ currentStep = 0
    /\ files = << >>
    /\ validationErrors = << >>
    /\ priorities = DefaultWeights
    /\ arg = << >>
    /\ ret = << >>
    /\ InitLocal
    /\ pc = "wizard"

Next ==
    \/ \E b \in Batches : handleFilesUploaded(b)
    \/ \E id \in 0..4 : StepClick(id)
    \/ ContinueToRules
    \/ ContinueToPriorities
    \/ ContinueToExport
    \/ \E i \in 1..Len(WeightKeys), v \in WizardSliderValues :
           handleSliderChange(WeightKeys[i], v)
    \/ \E i \in 1..Len(templates) : applyTemplate(templates[i])
    \/ resetToDefault

Spec == Init /\ [][Next]_vars

\* the wizard with the weights set by the templates, and the export at its end
NextExport ==
    \/ \E b \in Batches : handleFilesUploaded(b)
    \/ \E id \in 0..4 : StepClick(id)
    \/ ContinueToRules
    \/ ContinueToPriorities
    \/ ContinueToExport
    \/ \E i \in 1..Len(templates) : applyTemplate(templates[i])
    \/ resetToDefault
    \/ \E c \in ExportConfigs : handleExport(c)

SpecExport == Init /\ [][NextExport]_vars

----------------------------------------------------------------------------
(* DataGrid: tabs, the search filter and cell editing, mounted at step 1.  *)

\* files.find(f => f.id === activeFile): << >> when no file has the id
currentFile ==
    IF \E i \in 1..Len(files) : files[i].id = activeFile
    THEN << files[CHOOSE i \in 1..Len(files) :
                     files[i].id = activeFile
                         /\ \A j \in 1..(i - 1) : files[j].id # activeFile] >>
    ELSE << >>

\* row.some(cell => cell && cell.toString().toLowerCase().includes(query))
RowMatches(row, lowerQuery) ==
    \E c \in 1..Len(row) :
        ~Falsy(row[c]) /\ includes(toLowerCase(toString(row[c])), lowerQuery)

\* the rows the table shows, in the order of currentFile.data
filteredData ==
    IF currentFile = << >> THEN << >>
    ELSE IF searchQuery = "" THEN currentFile[1].data
    ELSE SelectSeq(currentFile[1].data, LAMBDA row : RowMatches(row, toLowerCase(searchQuery)))

\* the table shows a cell at displayed row `row`, column `col` (0-based);
\* row.map renders nothing for an index the row does not have
CellShown(row, col) ==
    /\ row >= 0 /\ row < Len(filteredData)
    /\ col >= 0 /\ col < Len(filteredData[row + 1])

\* the edit box is on screen: a shown cell is the one being edited
EditBoxShown ==
    editingCell # << >> /\ CellShown(editingCell[1], editingCell[2])

\* newData[row][col] = value on a copy of the outer array: the row gets the
\* value at col, with empty slots before it when the row was shorter
WithCell(data, row, col, value) ==
    [data EXCEPT ![row + 1] =
        [c \in 1..(IF col + 1 > Len(@) THEN col + 1 ELSE Len(@)) |->
            IF c = col + 1 THEN value ELSE IF c <= Len(@) THEN @[c] ELSE Null]]

\* handleDataUpdate with the original grid replaced along with the working grid
handleDataUpdateBothGrids(prev, fileId, newData) ==
    [i \in 1..Len(prev) |->
        IF prev[i].id = fileId
        THEN [prev[i] EXCEPT !.data = newData, !.originalData = newData] ELSE prev[i]]

\* Home handleDataUpdate: prev.map(file => file.id === fileId ? {...file, data} : file)
handleDataUpdate(prev, fileId, newData) ==
    [i \in 1..Len(prev) |->
        IF prev[i].id = fileId THEN [prev[i] EXCEPT !.data = newData] ELSE prev[i]]

GridReady == pc = "wizard" /\ currentStep = 1 /\ Len(files) > 0

\* the number of cells of the working grids that differ from the original grids
EditCount(fs) ==
    Cardinality({ << i, r, c >> \in (1..Len(fs)) \X (1..2) \X (1..2) :
                    /\ r <= Len(fs[i].data) /\ c <= Len(fs[i].data[r])
                    /\ CellAt(fs[i].data[r], c) # CellAt(fs[i].originalData[r], c) })

\* most cells the model lets differ from the original at one time
MaxEdits == 1

\* a file tab: onClick={() => setActiveFile(file.id)}
setActiveFile(id) ==
    /\ GridReady
    /\ \E i \in 1..Len(files) : files[i].id = id
    /\ activeFile' = id
    /\ UNCHANGED <<currentStep, files, validationErrors, priorities, rules, searchQuery,
                   editingCell, editValue, formVars, arg, ret, pc>>
    /\ UNCHANGED searchVars
    /\ UNCHANGED uploadVars

\* NaturalLanguageSearch onSearch = Home setSearchQuery
onSearch(text) ==
    /\ GridReady
    /\ searchQuery' = text
    /\ UNCHANGED <<currentStep, files, validationErrors, priorities, rules,
                   gridVars, formVars, arg, ret, pc>>
    /\ UNCHANGED searchVars
    /\ UNCHANGED uploadVars

handleCellClick(row, col) ==
    /\ GridReady
    /\ CellShown(row, col)
    /\ editingCell # << row, col >>
    /\ editingCell' = << row, col >>
    /\ editValue' = LET cell == CellAt(currentFile[1].data[row + 1], col + 1)
                    IN  IF cell.t = "null" THEN "" ELSE toString(cell)
    /\ UNCHANGED <<currentStep, files, validationErrors, priorities, rules, searchQuery,
                   activeFile, formVars, arg, ret, pc>>
    /\ UNCHANGED searchVars
    /\ UNCHANGED uploadVars

\* the edit box: onChange={(e) => setEditValue(e.target.value)}
setEditValue(value) ==
    /\ GridReady
    /\ EditBoxShown
    /\ editValue' = value
    /\ UNCHANGED <<currentStep, files, validationErrors, priorities, rules, searchQuery,
                   activeFile, editingCell, formVars, arg, ret, pc>>
    /\ UNCHANGED searchVars
    /\ UNCHANGED uploadVars

\* the files Home holds once handleCellSave has run on the state as it is:
\* newData[editingCell.row][editingCell.col] = editValue; onDataUpdate(currentFile.id, newData)
filesAfterSave ==
    LET newData == WithCell(currentFile[1].data, editingCell[1], editingCell[2],
                            Str(editValue))
    IN  handleDataUpdate(files, currentFile[1].id, newData)

\* Save button or Enter; the rows of newData are the rows of currentFile.data,
\* and the list of issues is computed anew from the files Home then holds
handleCellSave ==
    /\ GridReady
    /\ EditBoxShown
    /\ LET newFiles == filesAfterSave
       IN  /\ EditCount(newFiles) <= MaxEdits
           /\ files' = newFiles
           /\ validationErrors' = ErrorsAfterRender(1, newFiles, validationErrors)
    /\ editingCell' = << >>
    /\ editValue' = ""
    /\ UNCHANGED <<currentStep, priorities, rules, searchQuery, activeFile, formVars,
                   arg, ret, pc>>
    /\ UNCHANGED searchVars
    /\ UNCHANGED uploadVars

handleCellCancel ==
    /\ GridReady
    /\ EditBoxShown
    /\ editingCell' = << >>
    /\ editValue' = ""
    /\ UNCHANGED <<currentStep, files, validationErrors, priorities, rules, searchQuery,
                   activeFile, formVars, arg, ret, pc>>
    /\ UNCHANGED searchVars
    /\ UNCHANGED uploadVars

\* the validation effect run once more: handleValidationUpdate is a new
\* function at every render of Home, and it is a dependency of the effect
ValidationEffect ==
    /\ GridReady
    /\ validationErrors' = ErrorsAfterRender(1, files, validationErrors)
    /\ UNCHANGED <<currentStep, files, priorities, rules, searchQuery, gridVars, formVars,
                   arg, ret, pc>>
    /\ UNCHANGED searchVars
    /\ UNCHANGED uploadVars

\* files a user uploads to edit: one column each, a malformed email in the
\* second row of the clients file; and a spreadsheet whose header row has a
\* blank cell before the id column
GridSampleFiles ==
    { DataFile("t", "tasks.csv", "tasks", << "id" >>, << << Str("T1") >> >>),
      DataFile("c", "clients.csv", "clients", << "email" >>,
               << << Str("ann@x.io") >>, << Str("bob@") >> >>),
      DataFile("h", "sheet.xlsx", "clients", << "name", EmptySlot, "id" >>, << >>) }

GridFile(id) == CHOOSE f \in GridSampleFiles : f.id = id

GridBatches == { << GridFile("c") >>, << GridFile("t"), GridFile("c") >>, << GridFile("h") >> }

\* texts typed into the edit box, and texts searched for
EditTexts == { "a@b.io" }
SearchTexts == { "", "bob" }

NextGrid ==
    \/ \E b \in GridBatches : handleFilesUploaded(b)
    \/ \E id \in 0..1 : StepClick(id)
    \/ \E i \in 1..Len(files) : setActiveFile(files[i].id)
    \/ \E q \in SearchTexts : onSearch(q)
    \/ \E row \in 0..(Len(filteredData) - 1) :
           \E col \in 0..(Len(filteredData[row + 1]) - 1) : handleCellClick(row, col)
    \/ \E v \in EditTexts : setEditValue(v)
    \/ handleCellSave
    \/ handleCellCancel
    \/ ValidationEffect

SpecGrid == Init /\ [][NextGrid]_vars

----------------------------------------------------------------------------
(* RulesBuilder, mounted at step 2.  A rule id is the text that            *)
(* Math.random().toString(36).substr(2, 9) yields; the model takes ids     *)
(* from RuleIds, never one that a rule of the collection already has.      *)
(* While the form is open it covers the page, so the buttons of the rule   *)
(* cards and Add Rule are out of reach.  Of the inputs of the form the     *)
(* model has the name, the priority and the enabled box; type,             *)
(* description, conditions and actions keep the values the form was opened *)
(* with (blank, a suggestion's, or those of the rule being edited).        *)

\* most rules the collection holds in the model
MaxRules == 2

IdNames == << "r1", "r2", "r3", "r4", "r5", "r6" >>

RuleIds == { IdNames[i] : i \in 1..(MaxRules + 1) }

RulesReady == pc = "wizard" /\ currentStep = 2

\* newRule.priority || 1
PriorityOrOne(priority) == IF priority.nan \/ priority.val = 0 THEN 1 ELSE priority.val

\* the rule object saveRule builds from the form, with the given id
RuleOfForm(id, form) ==
    [id |-> id, name |-> form.name, type |-> form.type, description |-> form.description,
     conditions |-> form.conditions, actions |-> form.actions, enabled |-> form.enabled,
     priority |-> PriorityOrOne(form.priority)]

\* setNewRule(rule): the fields of the form taken from a rule
FormOfRule(rule) ==
    [name |-> rule.name, type |-> rule.type, description |-> rule.description,
     conditions |-> rule.conditions, actions |-> rule.actions, enabled |-> rule.enabled,
     priority |-> [nan |-> FALSE, val |-> rule.priority]]

\* saving an edit as a new rule at the end of the collection
ReplacedByAppend(rs, rule) == Append(rs, rule)

\* rules.map(r => r.id === rule.id ? rule : r)
Replaced(rs, rule) == [i \in 1..Len(rs) |-> IF rs[i].id = rule.id THEN rule ELSE rs[i]]

\* rules.filter(r => r.id !== ruleId)
Removed(rs, ruleId) == SelectSeq(rs, LAMBDA r : r.id # ruleId)

\* toggleRule that takes the rule out of the collection
ToggledAway(rs, ruleId) == SelectSeq(rs, LAMBDA r : r.id # ruleId)

\* rules.map(r => r.id === ruleId ? { ...r, enabled: !r.enabled } : r)
Toggled(rs, ruleId) ==
    [i \in 1..Len(rs) |-> IF rs[i].id = ruleId THEN [rs[i] EXCEPT !.enabled = ~@] ELSE rs[i]]

\* Add Rule: onClick={() => setShowRuleForm(true)}
openRuleForm ==
    /\ RulesReady
    /\ ~showRuleForm
    /\ showRuleForm' = TRUE
    /\ UNCHANGED <<currentStep, files, validationErrors, priorities, rules, searchQuery,
                   gridVars, editingRule, newRule, arg, ret, pc>>
    /\ UNCHANGED searchVars
    /\ UNCHANGED uploadVars

suggestedRules ==
    << [name |-> "High Priority Co-run", type |-> "co-run",
        description |-> "Group high priority tasks together",
        conditions |-> << [field |-> "priority", operator |-> "equals", value |-> "high"] >>,
        actions |-> << [type |-> "group", target |-> "tasks",
                        value |-> "high_priority_group"] >>],
       [name |-> "Skill-based Assignment", type |-> "phase-restriction",
        description |-> "Assign tasks based on required skills",
        conditions |-> << [field |-> "required_skills", operator |-> "contains",
                           value |-> "javascript"] >>,
        actions |-> << [type |-> "assign", target |-> "worker",
                        value |-> "javascript_developers"] >>] >>

\* a suggestion, offered while the collection is empty:
\* setNewRule({ ...suggestion, enabled: true, priority: 1 })
applySuggestion(suggestion) ==
    /\ RulesReady
    /\ ~showRuleForm
    /\ Len(rules) = 0
    /\ newRule' = [name |-> suggestion.name, type |-> suggestion.type,
                   description |-> suggestion.description,
                   conditions |-> suggestion.conditions, actions |-> suggestion.actions,
                   enabled |-> TRUE, priority |-> [nan |-> FALSE, val |-> 1]]
    /\ showRuleForm' = TRUE
    /\ UNCHANGED <<currentStep, files, validationErrors, priorities, rules, searchQuery,
                   gridVars, editingRule, arg, ret, pc>>
    /\ UNCHANGED searchVars
    /\ UNCHANGED uploadVars

\* the enabled box: onChange sets newRule.enabled to e.target.checked
setRuleEnabled(checked) ==
    /\ RulesReady
    /\ showRuleForm
    /\ newRule' = [newRule EXCEPT !.enabled = checked]
    /\ UNCHANGED <<currentStep, files, validationErrors, priorities, rules, searchQuery,
                   gridVars, showRuleForm, editingRule, arg, ret, pc>>
    /\ UNCHANGED searchVars
    /\ UNCHANGED uploadVars

\* Rule Name: onChange sets newRule.name
setRuleName(name) ==
    /\ RulesReady
    /\ showRuleForm
    /\ newRule' = [newRule EXCEPT !.name = name]
    /\ UNCHANGED <<currentStep, files, validationErrors, priorities, rules, searchQuery,
                   gridVars, showRuleForm, editingRule, arg, ret, pc>>
    /\ UNCHANGED searchVars
    /\ UNCHANGED uploadVars

\* Priority (1-10): onChange sets newRule.priority to parseInt(e.target.value);
\* min and max of the number input do not restrain what is typed
setRulePriority(text) ==
    /\ RulesReady
    /\ showRuleForm
    /\ newRule' = [newRule EXCEPT !.priority = parseInt(text)]
    /\ UNCHANGED <<currentStep, files, validationErrors, priorities, rules, searchQuery,
                   gridVars, showRuleForm, editingRule, arg, ret, pc>>
    /\ UNCHANGED searchVars
    /\ UNCHANGED uploadVars

\* Create Rule / Update Rule, then resetForm
saveRule(freshId) ==
    /\ RulesReady
    /\ showRuleForm
    /\ newRule.name # ""
    /\ \A i \in 1..Len(rules) : rules[i].id # freshId
    /\ IF editingRule # << >>
       THEN rules' = Replaced(rules, RuleOfForm(editingRule[1].id, newRule))
       ELSE /\ Len(rules) < MaxRules
            /\ rules' = Append(rules, RuleOfForm(freshId, newRule))
    /\ SetForm(<< FALSE, << >>, BlankRule >>)
    /\ UNCHANGED <<currentStep, files, validationErrors, priorities, searchQuery,
                   gridVars, arg, ret, pc>>
    /\ UNCHANGED searchVars
    /\ UNCHANGED uploadVars

\* Cancel or the X of the form
resetForm ==
    /\ RulesReady
    /\ showRuleForm
    /\ SetForm(<< FALSE, << >>, BlankRule >>)
    /\ UNCHANGED <<currentStep, files, validationErrors, priorities, rules, searchQuery,
                   gridVars, arg, ret, pc>>
    /\ UNCHANGED searchVars
    /\ UNCHANGED uploadVars

editRule(rule) ==
    /\ RulesReady
    /\ ~showRuleForm
    /\ SetForm(<< TRUE, << rule >>, FormOfRule(rule) >>)
    /\ UNCHANGED <<currentStep, files, validationErrors, priorities, rules, searchQuery,
                   gridVars, arg, ret, pc>>
    /\ UNCHANGED searchVars
    /\ UNCHANGED uploadVars

deleteRule(ruleId) ==
    /\ RulesReady
    /\ ~showRuleForm
    /\ rules' = Removed(rules, ruleId)
    /\ UNCHANGED <<currentStep, files, validationErrors, priorities, searchQuery,
                   gridVars, formVars, arg, ret, pc>>
    /\ UNCHANGED searchVars
    /\ UNCHANGED uploadVars

toggleRule(ruleId) ==
    /\ RulesReady
    /\ ~showRuleForm
    /\ rules' = Toggled(rules, ruleId)
    /\ UNCHANGED <<currentStep, files, validationErrors, priorities, searchQuery,
                   gridVars, formVars, arg, ret, pc>>
    /\ UNCHANGED searchVars
    /\ UNCHANGED uploadVars

\* texts typed into the name and the priority input
RuleNames == { "R" }
PriorityTexts == { "", "99" }

NextRules ==
    \/ \E id \in {2, 4} : StepClick(id)
    \/ openRuleForm
    \/ \E i \in 1..Len(suggestedRules) : applySuggestion(suggestedRules[i])
    \/ \E checked \in BOOLEAN : setRuleEnabled(checked)
    \/ \E name \in RuleNames : setRuleName(name)
    \/ \E text \in PriorityTexts : setRulePriority(text)
    \/ \E id \in RuleIds : saveRule(id)
    \/ resetForm
    \/ \E i \in 1..Len(rules) : editRule(rules[i])
    \/ \E i \in 1..Len(rules) : deleteRule(rules[i].id)
    \/ \E i \in 1..Len(rules) : toggleRule(rules[i].id)
    \/ \E c \in ExportConfigs : handleExport(c)

SpecRules == Init /\ [][NextRules]_vars

----------------------------------------------------------------------------
(* The priority normalizer alone: PrioritizationInterface mounted (step 3) *)
(* and its three handlers.                                                 *)

InitWeights ==
    /\ currentStep = 3
    /\ files = << >>
    /\ validationErrors = << >>
    /\ priorities = DefaultWeights
    /\ arg = << >>
    /\ ret = << >>
    /\ InitLocal
    /\ pc = "wizard"

NextWeights ==
    \/ \E i \in 1..Len(WeightKeys), v \in SliderValues : handleSliderChange(WeightKeys[i], v)
    \/ \E i \in 1..Len(templates) : applyTemplate(templates[i])
    \/ resetToDefault

SpecWeights == InitWeights /\ [][NextWeights]_vars

----------------------------------------------------------------------------
(* validateCell as a function: one call on a header and a cell value.      *)

CellHeaders ==
    { "id", "name", "email", "priority", "duration", "budget", "skills", "notes",
      "budget_priority", "contact_email_priority" }

CellValues ==
    { Null, Str(""), Str("  "), Num("0"), Num("3"), Num("2.5"),
      Str("0"), Str("3"), Str(" 4 "), Str("6"), Str("abc"), Str("3abc"), Str("2.5"),
      Str("-1"), Str("$1,000"), Str("user@example.com"), Str("user@"),
      Str("user.example.com"), Str("a@b"), Str("a b@c.io"), Str("a@b@c.io"),
      Str("{a@b.io"), Str("a;b"), Str("{\"a\":1}"), Str("{\"a\":1"),
      Str("[1;2") }

InitCell ==
    /\ currentStep = 1
    /\ files = << >>
    /\ validationErrors = << >>
    /\ priorities = DefaultWeights
    /\ arg \in [file : {[id |-> "f"]}, rowIndex : {2}, colIndex : {1},
                header : CellHeaders, cell : CellValues]
    /\ ret = << >>
    /\ InitLocal
    /\ pc = "ready"

CallValidateCell ==
    /\ pc = "ready"
    /\ ret' = validateCell(arg.file, arg.rowIndex, arg.colIndex, arg.header, arg.cell)
    /\ pc' = "done"
    /\ UNCHANGED <<currentStep, files, validationErrors, priorities, arg>>
    /\ UNCHANGED <<rules, searchQuery, gridVars, formVars>>
    /\ UNCHANGED searchVars
    /\ UNCHANGED uploadVars

SpecCell == InitCell /\ [][CallValidateCell]_vars

----------------------------------------------------------------------------
(* validateData as a function: one call on a file.                         *)

FileTypes == { "clients", "workers", "tasks" }

HeaderLists ==
    { << "id", "name", "email", "priority" >>,
      << "id", "name", "mail", "priority" >>,
      << "id", "title", "duration", "priority" >>,
      << "client_id", "name" >>,
      << "name", "id" >>,
      << "id", "skills" >>,
      << "id", "" >>,
      << "client_id", "id", "uid" >>,
      << "id", EmptySlot >>,
      << "name", EmptySlot, "id" >> }

GridCells == { Str("A"), Str("3") }

MaxRows == 2

\* rows of n cells: one value throughout, the values alternating, and the row
\* that lacks its cells (a short spreadsheet row)
GridRows(n) ==
    { [i \in 1..n |-> c] : c \in GridCells }
        \cup { [i \in 1..n |-> IF i % 2 = 1 THEN Str("A") ELSE Str("3")], << >> }

Grids(n) == UNION { [1..m -> GridRows(n)] : m \in 0..MaxRows }

GridFiles ==
    UNION { { [id |-> "f", type |-> t, headers |-> h, data |-> d] :
                t \in FileTypes, d \in Grids(Len(h)) } : h \in HeaderLists }

\* identifier values: texts, the empty text, and the numbers 0 and 7 of a spreadsheet
IdCells == { Str("A"), Str("B"), Str("C"), Str("") }
NumericIdCells == { Num("0"), Num("7"), Str("7") }

MaxIdRows == 5

IdRows(cells) == { << Str("n"), c >> : c \in cells }

IdGrids ==
    UNION { [1..m -> IdRows(IdCells)] : m \in 0..MaxIdRows }
        \cup UNION { [1..m -> IdRows(NumericIdCells)] : m \in 0..MaxRows }

IdFiles ==
    { [id |-> "f", type |-> "tasks", headers |-> << "task_name", "id" >>, data |-> d] :
        d \in IdGrids }

InitData ==
    /\ currentStep = 1
    /\ files = << >>
    /\ validationErrors = << >>
    /\ priorities = DefaultWeights
    /\ arg \in GridFiles \cup IdFiles
    /\ ret = << >>
    /\ InitLocal
    /\ pc = "ready"

CallValidateData ==
    /\ pc = "ready"
    /\ IF validateDataThrows(arg)
       THEN ret' = ret /\ pc' = "thrown"
       ELSE ret' = validateData(arg) /\ pc' = "done"
    /\ UNCHANGED <<currentStep, files, validationErrors, priorities, arg>>
    /\ UNCHANGED <<rules, searchQuery, gridVars, formVars>>
    /\ UNCHANGED searchVars
    /\ UNCHANGED uploadVars

SpecData == InitData /\ [][CallValidateData]_vars

----------------------------------------------------------------------------
(* Claims about the wizard and the priority normalizer.                    *)

One == Frac(1, 1)
Zero == Frac(0, 1)

\* C1: while the issue list holds an issue of severity error, no step of the
\* wizard leads from the editing stage (1) to a later stage (2, 3, 4).
\* (That warnings and infos alone do not block is the guard of ContinueToRules.)
C1_ErrorsBlockAdvance ==
    [][ (currentStep = 1 /\ \E i \in 1..Len(validationErrors) :
                                validationErrors[i].severity = "error")
            => currentStep' \notin {2, 3, 4} ]_vars

\* the total handleSliderChange divides by: the requested value plus the other four
NewTotal(i, v) ==
    Total([priorities EXCEPT ![WeightKeys[i]] = Frac(v, 100)])

\* C2 as claimed: after every slider edit the five weights sum to exactly 1.
C2_SliderSumsToOne ==
    [][ \A i \in 1..Len(WeightKeys), v \in SliderValues :
            handleSliderChange(WeightKeys[i], v) => Total(priorities') = One ]_vars

\* C2 amended: after a slider edit whose new total is greater than 0 the five
\* weights sum to 1; an edit whose new total is 0 leaves all five weights 0.
C2_SliderSumsToOneUnlessZero ==
    [][ \A i \in 1..Len(WeightKeys), v \in SliderValues :
            handleSliderChange(WeightKeys[i], v) =>
                IF FLess(Zero, NewTotal(i, v))
                THEN Total(priorities') = One
                ELSE \A k \in 1..Len(WeightKeys) : priorities'[WeightKeys[k]] = Zero ]_vars

\* a state only a slider edit produces: priorityLevel set to 0.6 on the default
C2_Witness ==
    /\ priorities.priorityLevel = << 6, 13 >>
    /\ priorities.taskFulfillment = << 5, 26 >>
    /\ Total(priorities) = One

\* C3: at the export stage the weights sum to 1 within 0.01.
C3_ExportOnlyWhenNormalized ==
    currentStep = 4 => FLess(FAbsDiff(Total(priorities), One), Frac(1, 100))

----------------------------------------------------------------------------
(* Claims about validateData (SpecData): arg is the file, ret the list.    *)

IdColumnOfArg == findIdColumn(arg.headers)

IdValue(r) == CellAt(arg.data[r], IdColumnOfArg + 1)

\* ret holds a duplicate issue for the row with 0-based index row
DuplicateIssueAt(row) ==
    \E i \in 1..Len(ret) :
        /\ ret[i].type = "duplicate" /\ ret[i].severity = "error"
        /\ ret[i].row = row /\ ret[i].column = IdColumnOfArg

OccurredEarlier(r) == \E q \in 1..(r - 1) : IdValue(q) = IdValue(r)

\* C4 as claimed, on the rows that hold an identifier cell: a row gets a
\* duplicate issue iff its identifier value occurred at an earlier row.
C4_DuplicateIffSeenBefore ==
    (pc = "done" /\ IdColumnOfArg # -1) =>
        \A r \in 1..Len(arg.data) :
            IdValue(r).t # "null" => (DuplicateIssueAt(r - 1) <=> OccurredEarlier(r))

\* C4 amended: a row gets a duplicate issue iff its identifier value is truthy
\* (not missing, not the empty text, not the number 0) and occurred at an
\* earlier row; the first occurrence never gets one.
C4_DuplicateIffTruthySeenBefore ==
    (pc = "done" /\ IdColumnOfArg # -1) =>
        \A r \in 1..Len(arg.data) :
            DuplicateIssueAt(r - 1) <=>
                /\ IdValue(r).t # "null"
                /\ IdValue(r) \notin { Str(""), Num("0"), Num("NaN") }
                /\ OccurredEarlier(r)

\* identifiers A, B, A, C, A: issues at rows 2 and 4 only
C4_Witness ==
    /\ pc = "done"
    /\ arg.headers = << "task_name", "id" >>
    /\ Len(arg.data) = 5
    /\ [r \in 1..5 |-> IdValue(r)] = << Str("A"), Str("B"), Str("A"), Str("C"), Str("A") >>
    /\ { r \in 0..4 : DuplicateIssueAt(r) } = {2, 4}

\* the file-level issues of ret that name the field
FileLevelIssues(field) ==
    { i \in 1..Len(ret) : ret[i].row = -1 /\ ret[i].column = -1 /\ ret[i].field = field }

NoHeaderContains(name) ==
    \A h \in 1..Len(arg.headers) : ~includes(toLowerCase(arg.headers[h]), name)

NoHeaderInside(name) ==
    \A h \in 1..Len(arg.headers) : ~includes(name, toLowerCase(arg.headers[h]))

RequiredNames(type) ==
    CASE type = "clients" -> { "id", "name", "email", "priority" }
      [] type = "workers" -> { "id", "name", "skills", "availability" }
      [] type = "tasks" -> { "id", "title", "duration", "priority" }

\* C6: for every required field name of the file's category there is exactly
\* one file-level issue (row -1, column -1, type missing, severity error)
\* when no header matches it in either direction, and none when one does.
C6_OneIssuePerMissingColumn ==
    pc = "done" =>
        \A name \in RequiredNames(arg.type) :
            /\ \A i \in FileLevelIssues(name) :
                   ret[i].type = "missing" /\ ret[i].severity = "error"
            /\ Cardinality(FileLevelIssues(name)) =
                   IF NoHeaderContains(name) /\ NoHeaderInside(name) THEN 1 ELSE 0

\* a workers file with headers id, skills: name and availability are missing,
\* id and skills are not
C6_Witness ==
    /\ pc = "done"
    /\ arg.type = "workers"
    /\ arg.headers = << "id", "skills" >>
    /\ { n \in RequiredNames("workers") : FileLevelIssues(n) # {} } = { "name", "availability" }

\* 0 for a file-level issue, 2 for a duplicate issue, 1 for a cell issue
Phase(e) == IF e.row = -1 THEN 0 ELSE IF e.type = "duplicate" THEN 2 ELSE 1

RequiredIndex(type, field) ==
    CHOOSE k \in 1..4 :
        field = ( CASE type = "clients" -> << "id", "name", "email", "priority" >>
                    [] type = "workers" -> << "id", "name", "skills", "availability" >>
                    [] type = "tasks" -> << "id", "title", "duration", "priority" >> )[k]

InOrder(a, b) ==
    /\ Phase(a) <= Phase(b)
    /\ (Phase(a) = 0 /\ Phase(b) = 0) =>
           RequiredIndex(arg.type, a.field) < RequiredIndex(arg.type, b.field)
    /\ (Phase(a) = 1 /\ Phase(b) = 1) =>
           a.row < b.row \/ (a.row = b.row /\ a.column <= b.column)
    /\ (Phase(a) = 2 /\ Phase(b) = 2) => a.row < b.row

\* the cell issues of ret at one cell, in the order ret lists them
IssuesAtCell(row, column) ==
    SelectSeq(ret, LAMBDA e : Phase(e) = 1 /\ e.row = row /\ e.column = column)

\* C7: ret lists the missing-column issues in required-field order, then the
\* cell issues in row-major order, then the duplicate issues by ascending
\* row; every issue of every cell is in it, and nothing else.
C7_EmissionOrder ==
    pc = "done" =>
        /\ \A i, j \in 1..Len(ret) : i < j => InOrder(ret[i], ret[j])
        /\ \A r \in 1..Len(arg.data), c \in 1..Len(arg.headers) :
               IssuesAtCell(r - 1, c - 1) =
                   IF arg.headers[c] = EmptySlot THEN << >>
                   ELSE validateCell(arg, r - 1, c - 1, arg.headers[c], CellAt(arg.data[r], c))
        /\ \A i \in 1..Len(ret) :
               Phase(ret[i]) = 1 =>
                   ret[i].row \in 0..(Len(arg.data) - 1)
                       /\ ret[i].column \in 0..(Len(arg.headers) - 1)

\* a result with a missing-column issue, cell issues in two rows and a duplicate
C7_Witness ==
    /\ pc = "done"
    /\ \E i, j, k, l \in 1..Len(ret) :
           /\ i < j /\ j < k /\ k < l
           /\ Phase(ret[i]) = 0
           /\ Phase(ret[j]) = 1 /\ Phase(ret[k]) = 1 /\ ret[j].row < ret[k].row
           /\ Phase(ret[l]) = 2

----------------------------------------------------------------------------
(* Claims about validateCell (SpecCell): arg holds header and cell, ret    *)
(* the issues of the cell.                                                 *)

ArgText == trim(toString(arg.cell))

ArgHeaderHas(word) == includes(toLowerCase(arg.header), word)

\* the whole text is an optionally signed run of decimal digits
IsIntegerText(s) ==
    LET b == IF Ch(s, 1) \in {"+", "-"} THEN 2 ELSE 1
    IN  b <= Len(s) /\ DigitsEnd(s, b) = Len(s) + 1

IntegerInOneToFive(s) ==
    /\ IsIntegerText(s)
    /\ Ch(s, 1) # "-"
    /\ DigitsValue(s, IF Ch(s, 1) = "+" THEN 2 ELSE 1, Len(s) + 1, 10) \in 1..5

HasRangeError ==
    \E i \in 1..Len(ret) : ret[i].type = "range" /\ ret[i].severity = "error"

\* C8: a text cell under a header containing 'priority' has no range issue
\* iff its trimmed text is an integer in [1,5]; '0', '6', 'abc', '3abc', '2.5'
\* each give a range issue of severity error.  (Cells without text and
\* numeric cells fall under the emptiness rule, C9.)
C8_PriorityRangeIffInteger ==
    (pc = "done" /\ ArgHeaderHas("priority") /\ arg.cell.t = "string" /\ ArgText # "") =>
        (~HasRangeError <=> IntegerInOneToFive(ArgText))

HasMissingError ==
    \E i \in 1..Len(ret) : ret[i].type = "missing" /\ ret[i].severity = "error"

\* C9: a cell yields a missing issue iff its trimmed text is empty and the
\* header contains id, name or email; a cell with empty trimmed text yields
\* nothing else; a cell with text, the number 0 included, gets the typed
\* checks.
C9_EmptinessRule ==
    pc = "done" =>
        /\ HasMissingError <=>
               /\ ArgText = ""
               /\ ArgHeaderHas("id") \/ ArgHeaderHas("name") \/ ArgHeaderHas("email")
        /\ ArgText = "" => \A i \in 1..Len(ret) : ret[i].type = "missing"
        /\ ArgText # "" =>
               ret = TypedChecks(arg.file, arg.rowIndex, arg.colIndex, arg.header, ArgText)

\* the typed check an issue comes from, by the text its message starts with
CheckRank(e) ==
    CASE startsWith(e.message, "Invalid email format") -> 1
      [] startsWith(e.message, "Priority must be") -> 2
      [] startsWith(e.message, "Duration must be") -> 3
      [] startsWith(e.message, "Budget must be") -> 4
      [] startsWith(e.message, "Skills should be") -> 5
      [] startsWith(e.message, "Invalid JSON format") -> 6
      [] OTHER -> 0

\* the verdict of typed check k on header and text, taken alone
CheckFails(k, s) ==
    CASE k = 1 -> ArgHeaderHas("email") /\ ~emailRegexTest(s)
      [] k = 2 -> ArgHeaderHas("priority")
                    /\ (parseInt(s).nan \/ parseInt(s).val < 1 \/ parseInt(s).val > 5)
      [] k = 3 -> ArgHeaderHas("duration")
                    /\ (parseFloat(s).nan \/ parseFloat(s).cls # "pos")
      [] k = 4 -> ArgHeaderHas("budget")
                    /\ (parseFloat(stripCurrency(s)).nan \/ parseFloat(stripCurrency(s)).cls = "neg")
      [] k = 5 -> ArgHeaderHas("skill") /\ (includes(s, ";") \/ includes(s, "|"))
      [] k = 6 -> (Ch(s, 1) = "{" \/ Ch(s, 1) = "[") /\ ~JSONparse(s)

\* C10: for a cell that passes the emptiness gate, typed check k reports iff
\* its own condition fails, whatever the other checks find, and the issues
\* appear in the order email, priority, duration, budget, skills, JSON.
C10_IndependentOrderedChecks ==
    (pc = "done" /\ ~IsEmptyCell(arg.cell)) =>
        /\ \A i \in 1..Len(ret) : CheckRank(ret[i]) \in 1..6
        /\ \A i, j \in 1..Len(ret) : i < j => CheckRank(ret[i]) < CheckRank(ret[j])
        /\ \A k \in 1..6 :
               (\E i \in 1..Len(ret) : CheckRank(ret[i]) = k) <=> CheckFails(k, ArgText)

\* one cell with three issues: email, priority and JSON
C10_Witness ==
    /\ pc = "done"
    /\ arg.header = "contact_email_priority"
    /\ Len(ret) = 3
    /\ CheckRank(ret[1]) = 1 /\ CheckRank(ret[2]) = 2 /\ CheckRank(ret[3]) = 6

----------------------------------------------------------------------------
(* Further claims about validateData (SpecData).                           *)

\* the 1-based positions of the headers that contain 'id' and none of
\* 'client', 'task', 'worker'
QualifyingHeaders ==
    { i \in 1..Len(arg.headers) :
        /\ includes(toLowerCase(arg.headers[i]), "id")
        /\ \A w \in { "client", "task", "worker" } : ~includes(toLowerCase(arg.headers[i]), w) }

DuplicateIssuesOfRet == { i \in 1..Len(ret) : ret[i].type = "duplicate" }

\* C11: every duplicate issue carries the index and the name of the first
\* header that contains 'id' and none of 'client', 'task', 'worker'; when no
\* header qualifies there is no duplicate issue, whatever the rows hold.
C11_IdColumnIsFirstQualifying ==
    pc = "done" =>
        IF QualifyingHeaders = {}
        THEN DuplicateIssuesOfRet = {}
        ELSE LET first == CHOOSE i \in QualifyingHeaders : \A j \in QualifyingHeaders : i <= j
             IN  \A i \in DuplicateIssuesOfRet :
                     ret[i].column = first - 1 /\ ret[i].field = arg.headers[first]

\* headers client_id, id, uid with a repeated row: two headers qualify, the
\* duplicate is reported at column 1
C11_Witness ==
    /\ pc = "done"
    /\ arg.headers = << "client_id", "id", "uid" >>
    /\ Cardinality(QualifyingHeaders) = 2
    /\ \E i \in DuplicateIssuesOfRet : ret[i].column = 1 /\ ret[i].row = 1

\* C12: validateData never ends in an exception: every call returns a list.
C12_NeverThrows == pc # "thrown"

----------------------------------------------------------------------------
(* Claims about uploads and cell edits (SpecGrid).                         *)

\* the grid parsed at upload for the file with this id
ParsedGrid(id) == GridFile(id).data

\* C13: whatever cells have been edited and saved, the originalData of every
\* file is the grid parsed at upload.
C13_OriginalDataKept ==
    \A i \in 1..Len(files) : files[i].originalData = ParsedGrid(files[i].id)

\* a saved edit: the working grid of a file differs from its original grid
C13_Witness ==
    /\ pc = "wizard"
    /\ \E i \in 1..Len(files) :
           /\ files[i].data # files[i].originalData
           /\ files[i].originalData = ParsedGrid(files[i].id)

\* C14: the issue list Home holds is the concatenation, in file order, of
\* validateData over the current working grids, after every upload, edit
\* and re-run of the validation effect.
C14_IssuesAreFreshPass ==
    pc = "wizard" =>
        validationErrors = ValidateAll(files)

\* two files, the malformed email of the second one corrected by an edit: the
\* issue of the upload pass is gone, the issues of the first file come first
C14_Witness ==
    /\ pc = "wizard"
    /\ Len(files) = 2
    /\ files[2].data = << << Str("ann@x.io") >>, << Str("a@b.io") >> >>
    /\ \A i \in 1..Len(validationErrors) : validationErrors[i].type # "malformed"
    /\ \E i \in 1..Len(ValidateAll(<< GridFile("c") >>)) :
           ValidateAll(<< GridFile("c") >>)[i].type = "malformed"
    /\ validationErrors = validateData(files[1]) \o validateData(files[2])
    /\ validateData(files[1]) # << >> /\ validateData(files[2]) # << >>

----------------------------------------------------------------------------
(* Claims about the export (SpecExport).                                   *)

\* the issues validation produces for the current data of the files
IssuesAtExport == ValidateAll(files)

\* C15: the validation report written by an export holds the issues that
\* validation produces for the exported files: the total, the counts by kind
\* and by severity, and the details of every file.
C15_ReportHoldsTheIssues ==
    [][ \A c \in ExportConfigs :
            (handleExport(c) /\ c.includeValidationReport) =>
                LET report == ret'[2][1] IN
                /\ report.summary.totalErrors = Len(IssuesAtExport)
                /\ report.summary.errorsByType = CountBy(IssuesAtExport, "type")
                /\ report.summary.errorsBySeverity = CountBy(IssuesAtExport, "severity")
                /\ \A i \in 1..Len(files) :
                       /\ report.files[i].errors = Len(validateData(files[i]))
                       /\ report.files[i].errorDetails = validateData(files[i]) ]_vars

----------------------------------------------------------------------------
(* Claims about the rule collection (SpecRules).                           *)

RuleIdsOf(rs) == { rs[i].id : i \in 1..Len(rs) }

PositionOf(rs, id) == CHOOSE i \in 1..Len(rs) : rs[i].id = id

\* rs without its element at position k
WithoutPosition(rs, k) == SubSeq(rs, 1, k - 1) \o SubSeq(rs, k + 1, Len(rs))

\* the rules that stay keep their relative order, and a rule that is new
\* stands at the end
OrderKept(old, new) ==
    /\ \A i, j \in 1..Len(new) :
           (i < j /\ new[i].id \in RuleIdsOf(old) /\ new[j].id \in RuleIdsOf(old)) =>
               PositionOf(old, new[i].id) < PositionOf(old, new[j].id)
    /\ \A i \in 1..Len(new) : new[i].id \notin RuleIdsOf(old) => i = Len(new)

\* C16: the collection keeps the order of creation through every operation:
\* creating appends one rule at the end; saving an edit leaves the count and
\* every rule but the one with the edited id as they are, and that one keeps
\* its position and id; toggling moves nothing; deleting takes out exactly
\* the rule with the id.
C16_RulesKeepCreationOrder ==
    [][ /\ OrderKept(rules, rules')
        /\ \A id \in RuleIds :
               (saveRule(id) /\ editingRule = << >>) =>
                   /\ Len(rules') = Len(rules) + 1
                   /\ SubSeq(rules', 1, Len(rules)) = rules
                   /\ rules'[Len(rules')].id = id
                   /\ rules'[Len(rules')].name = newRule.name
        /\ \A id \in RuleIds :
               (saveRule(id) /\ editingRule # << >>) =>
                   /\ Len(rules') = Len(rules)
                   /\ \A i \in 1..Len(rules) :
                          /\ rules'[i].id = rules[i].id
                          /\ rules[i].id # editingRule[1].id => rules'[i] = rules[i]
                          /\ rules[i].id = editingRule[1].id =>
                                 /\ rules'[i].name = newRule.name
                                 /\ rules'[i].priority = PriorityOrOne(newRule.priority)
        /\ \A i \in 1..Len(rules) :
               toggleRule(rules[i].id) =>
                   Len(rules') = Len(rules)
                       /\ \A k \in 1..Len(rules) : rules'[k].id = rules[k].id
        /\ \A i \in 1..Len(rules) :
               deleteRule(rules[i].id) => rules' = WithoutPosition(rules, i) ]_vars

\* r1 and r2 created, r1 deleted and an id r1 created again, the rule r2
\* disabled and with an edited priority: r2 stands before r1
C16_Witness ==
    /\ Len(rules) = 2
    /\ rules[1].id = "r2" /\ rules[2].id = "r1"
    /\ ~rules[1].enabled /\ rules[1].priority = 99
    /\ rules[2].enabled /\ rules[2].priority = 1

RuleFieldsButEnabled ==
    { "id", "name", "type", "description", "conditions", "actions", "priority" }

C18_PriorityInOneToTen ==
    \A i \in 1..Len(rules) : rules[i].priority \in 1..10

----------------------------------------------------------------------------
(* The rule evaluator.  The sources at hand declare Rule and RuleCondition *)
(* and build rules in RulesBuilder; nothing in them evaluates a rule.  The *)
(* evaluator below follows the specification's section 4.4: a condition    *)
(* tests one field of a row, the conditions of a rule are combined from    *)
(* the left, each by its own logicalOperator with the next one, and a      *)
(* disabled rule is not evaluated.  Of the operators it has the three that *)
(* compare texts; a rule has at least one condition and every field it     *)
(* names is a field of the row.                                            *)

\* one condition against a row
evaluateCondition(condition, row) ==
    LET v == row[condition.field]
        x == condition.value
    IN  CASE condition.operator = "equals" -> v = x
          [] condition.operator = "not-equals" -> v # x
          [] condition.operator = "contains" -> includes(toLowerCase(v), toLowerCase(x))

\* a logicalOperator applied to the result so far and the next condition
combine(op, left, right) == IF op = "AND" THEN left /\ right ELSE left \/ right

\* the conditions from position i on, AND binding tighter than OR
RECURSIVE andGroupFrom(_, _, _)
andGroupFrom(conditions, row, i) ==
    IF i = Len(conditions) \/ conditions[i].logicalOperator = "OR"
    THEN evaluateCondition(conditions[i], row)
    ELSE evaluateCondition(conditions[i], row) /\ andGroupFrom(conditions, row, i + 1)

RECURSIVE nextGroup(_, _)
nextGroup(conditions, i) ==
    IF i = Len(conditions) THEN i + 1
    ELSE IF conditions[i].logicalOperator = "OR" THEN i + 1
    ELSE nextGroup(conditions, i + 1)

RECURSIVE orOfGroupsFrom(_, _, _)
orOfGroupsFrom(conditions, row, i) ==
    IF i > Len(conditions) THEN FALSE
    ELSE andGroupFrom(conditions, row, i)
             \/ orOfGroupsFrom(conditions, row, nextGroup(conditions, i))

\* the result so far carried from condition i - 1 to condition i
RECURSIVE foldFrom(_, _, _, _)
foldFrom(conditions, row, acc, i) ==
    IF i > Len(conditions) THEN acc
    ELSE foldFrom(conditions, row,
                  combine(conditions[i - 1].logicalOperator, acc,
                          evaluateCondition(conditions[i], row)),
                  i + 1)

\* the predicate of a rule with AND taking precedence over OR
evaluateRuleWithPrecedence(rule, row) == orOfGroupsFrom(rule.conditions, row, 1)

\* the predicate of a rule over a row
evaluateRule(rule, row) ==
    foldFrom(rule.conditions, row, evaluateCondition(rule.conditions[1], row), 2)

\* the ids of the rules that apply to the row, in the order of the collection
matchingRules(rs, row) ==
    LET hits == SelectSeq(rs, LAMBDA r : r.enabled /\ evaluateRule(r, row))
    IN  [i \in 1..Len(hits) |-> hits[i].id]

\* most conditions of a rule in the model
MaxConds == 3

EvalRows ==
    { [priority |-> "high", name |-> "Joanna"],
      [priority |-> "3", name |-> "Bob"],
      [priority |-> "High", name |-> "ann"] }

\* the condition of the first suggested rule, and three others
EvalTests ==
    { [field |-> "priority", operator |-> "equals", value |-> "high"],
      [field |-> "priority", operator |-> "equals", value |-> "3"],
      [field |-> "priority", operator |-> "not-equals", value |-> "high"],
      [field |-> "name", operator |-> "contains", value |-> "ANN"] }

EvalConditions ==
    { [field |-> t.field, operator |-> t.operator, value |-> t.value, logicalOperator |-> op] :
        t \in EvalTests, op \in { "AND", "OR" } }

EvalConditionLists == UNION { [1..n -> EvalConditions] : n \in 1..MaxConds }

EvalRule(id, conditions, enabled) ==
    [id |-> id, name |-> "R", type |-> "co-run", description |-> "",
     conditions |-> conditions, actions |-> << >>, enabled |-> enabled, priority |-> 1]

\* collections of one rule, and of a suggested rule followed by a second rule
EvalCollections ==
    { << EvalRule("r1", cs, e) >> : cs \in EvalConditionLists, e \in BOOLEAN }
        \cup { << EvalRule("r1", suggestedRules[1].conditions, e1),
                  EvalRule("r2", << c >>, e2) >> :
                 c \in EvalConditions, e1 \in BOOLEAN, e2 \in BOOLEAN }

InitEval ==
    /\ currentStep = 2
    /\ files = << >>
    /\ validationErrors = << >>
    /\ priorities = DefaultWeights
    /\ arg \in [rules : EvalCollections, row : EvalRows]
    /\ ret = << >>
    /\ InitLocal
    /\ pc = "ready"

CallMatchingRules ==
    /\ pc = "ready"
    /\ ret' = matchingRules(arg.rules, arg.row)
    /\ pc' = "done"
    /\ UNCHANGED <<currentStep, files, validationErrors, priorities, arg>>
    /\ UNCHANGED <<rules, searchQuery, gridVars, formVars>>
    /\ UNCHANGED searchVars
    /\ UNCHANGED uploadVars

SpecEval == InitEval /\ [][CallMatchingRules]_vars

----------------------------------------------------------------------------
(* Claims about the rule evaluator (SpecEval): arg holds the collection    *)
(* and the row, ret the ids of the rules that apply.                       *)

\* the verdict of condition k of a rule on the row of arg, read off the row
Verdict(rule, k) ==
    LET c == rule.conditions[k]
        v == arg.row[c.field]
    IN  CASE c.operator = "equals" -> v = c.value
          [] c.operator = "not-equals" -> ~(v = c.value)
          [] c.operator = "contains" ->
                 \E a \in 0..Len(v) :
                     a + Len(c.value) <= Len(v)
                         /\ toLowerCase(SubSeq(v, a + 1, a + Len(c.value))) = toLowerCase(c.value)

Connective(rule, k) == rule.conditions[k].logicalOperator

\* ((c1 op1 c2) op2 c3) op3 c4, written out for rules of up to four conditions
Nested(rule) ==
    LET n == Len(rule.conditions)
        p1 == Verdict(rule, 1)
        p2 == IF Connective(rule, 1) = "AND" THEN p1 /\ Verdict(rule, 2)
                                              ELSE p1 \/ Verdict(rule, 2)
        p3 == IF Connective(rule, 2) = "AND" THEN p2 /\ Verdict(rule, 3)
                                              ELSE p2 \/ Verdict(rule, 3)
        p4 == IF Connective(rule, 3) = "AND" THEN p3 /\ Verdict(rule, 4)
                                              ELSE p3 \/ Verdict(rule, 4)
    IN  CASE n = 1 -> p1 [] n = 2 -> p2 [] n = 3 -> p3 [] n = 4 -> p4

InRet(id) == \E i \in 1..Len(ret) : ret[i] = id

\* C19: a rule applies to a row iff it is enabled and the left-to-right
\* nesting ((c1 op1 c2) op2 c3) of its conditions holds, each condition
\* combined with the next by its own logicalOperator, AND not binding
\* tighter than OR; 'priority equals high' holds for the value 'high' and
\* not for '3' (nor for 'High'); a disabled rule never applies.
C19_LeftToRightFold ==
    pc = "done" =>
        /\ \A k \in 1..Len(arg.rules) :
               InRet(arg.rules[k].id) <=> (arg.rules[k].enabled /\ Nested(arg.rules[k]))
        /\ \A k \in 1..Len(arg.rules) :
               (arg.rules[k].enabled
                    /\ arg.rules[k].conditions = suggestedRules[1].conditions) =>
                   (InRet(arg.rules[k].id) <=> arg.row.priority = "high")

\* c1 OR c2 AND c3 with c1 true, c2 and c3 false: the fold says false, where
\* AND before OR would say true
C19_Witness ==
    /\ pc = "done"
    /\ Len(arg.rules) = 1 /\ arg.rules[1].enabled
    /\ Len(arg.rules[1].conditions) = 3
    /\ Connective(arg.rules[1], 1) = "OR" /\ Connective(arg.rules[1], 2) = "AND"
    /\ Verdict(arg.rules[1], 1) /\ ~Verdict(arg.rules[1], 2) /\ ~Verdict(arg.rules[1], 3)
    /\ ret = << >>

----------------------------------------------------------------------------
(* A further claim about the priority normalizer (SpecWeights).            *)

\* a * t = b, on fractions
TimesIs(a, t, b) == a[1] * t[1] * b[2] = b[1] * a[2] * t[2]

\* a : b = c : d, on fractions
SameRatio(a, b, c, d) == a[1] * d[1] * b[2] * c[2] = c[1] * b[1] * a[2] * d[2]

\* C20: after a slider edit whose new total is greater than 0, each of the
\* four weights that were not edited is its old value divided by the new
\* total, so the ratio of any two of them is what it was, and the edited
\* weight is the requested value divided by the new total; from the default
\* weights, priorityLevel set to 0.6 gives weights that sum to 1.
C20_OthersScaledAlike ==
    [][ \A i \in 1..Len(WeightKeys), v \in SliderValues :
            (handleSliderChange(WeightKeys[i], v) /\ FLess(Zero, NewTotal(i, v))) =>
                LET others == (1..Len(WeightKeys)) \ {i}
                    old(k) == priorities[WeightKeys[k]]
                    new(k) == priorities'[WeightKeys[k]]
                IN  /\ \A k \in others : TimesIs(new(k), NewTotal(i, v), old(k))
                    /\ \A j, k \in others : SameRatio(new(j), new(k), old(j), old(k))
                    /\ TimesIs(new(i), NewTotal(i, v), Frac(v, 100))
                    /\ (priorities = DefaultWeights /\ i = 1 /\ v = 60) =>
                           Total(priorities') = One ]_vars

\* priorityLevel set to 0.6 on the default: the total was 1.3, the other four
\* weights are 0.25, 0.2, 0.15 and 0.1 divided by it and keep the ratios 5:4:3:2
C20_Witness ==
    /\ priorities.priorityLevel = Frac(60, 130)
    /\ priorities.taskFulfillment = Frac(25, 130)
    /\ priorities.fairness = Frac(20, 130)
    /\ priorities.efficiency = Frac(15, 130)
    /\ priorities.resourceUtilization = Frac(10, 130)
    /\ SameRatio(priorities.taskFulfillment, priorities.fairness, Frac(5, 1), Frac(4, 1))

----------------------------------------------------------------------------
(* Claims about the templates of the priority stage (SpecWeights).         *)

----------------------------------------------------------------------------
(* Claims about budget cells, in the wizard (Spec).                        *)

\* the cells of the uploaded files under a header that contains 'budget':
\* file, row and column, each counted from 1
BudgetCells ==
    { p \in UNION { { << i, r, c >> : r \in 1..Len(files[i].data),
                                      c \in 1..Len(files[i].headers) } :
                      i \in 1..Len(files) } :
        includes(toLowerCase(files[p[1]].headers[p[3]]), "budget") }

CellOf(p) == CellAt(files[p[1]].data[p[2]], p[3])

\* parseFloat of the text without '$' and ',' is NaN or less than 0
NoAmount(cell) ==
    LET n == parseFloat(stripCurrency(toString(cell))) IN n.nan \/ n.cls = "neg"

IsBudgetIssue(e) == startsWith(e.message, "Budget must be")

BudgetWarningAt(p) ==
    \E k \in 1..Len(validationErrors) :
        /\ IsBudgetIssue(validationErrors[k])
        /\ validationErrors[k].fileId = files[p[1]].id
        /\ validationErrors[k].row = p[2] - 1
        /\ validationErrors[k].column = p[3] - 1
        /\ validationErrors[k].type = "range"
        /\ validationErrors[k].severity = "warning"

OnlyBudgetIssues ==
    \A k \in 1..Len(validationErrors) : IsBudgetIssue(validationErrors[k])

\* what the budget check says, and what it means for the Continue button
BudgetIssuesAreWarnings ==
    /\ \A k \in 1..Len(validationErrors) :
           IsBudgetIssue(validationErrors[k]) =>
               validationErrors[k].type = "range" /\ validationErrors[k].severity = "warning"
    /\ (currentStep = 1 /\ Len(files) > 0 /\ OnlyBudgetIssues) => ENABLED ContinueToRules

\* C22 as claimed: every cell under a budget header whose value without '$'
\* and ',' is no number >= 0 has a range issue of severity warning; no budget
\* issue has severity error; files with budget issues only leave the
\* Continue to Rules button enabled.
C22_BudgetWarningOnly ==
    pc = "wizard" =>
        /\ \A p \in BudgetCells : NoAmount(CellOf(p)) => BudgetWarningAt(p)
        /\ BudgetIssuesAreWarnings

\* C22 amended: the same for the cells that are not empty; an empty cell
\* under a budget header has no issue.
C22_BudgetWarningUnlessEmpty ==
    pc = "wizard" =>
        /\ \A p \in BudgetCells :
               IF IsEmptyCell(CellOf(p))
               THEN ~BudgetWarningAt(p)
               ELSE NoAmount(CellOf(p)) => BudgetWarningAt(p)
        /\ BudgetIssuesAreWarnings

\* the rules stage reached by Continue with the budget file uploaded: two
\* budget warnings are listed, of 'abc' and of '-1', and nothing else
C22_Witness ==
    /\ currentStep = 2
    /\ Len(files) = 1 /\ files[1].id = "b"
    /\ Len(validationErrors) = 2
    /\ OnlyBudgetIssues
    /\ BudgetWarningAt(<< 1, 1, 5 >>) /\ BudgetWarningAt(<< 1, 2, 5 >>)
    /\ ~BudgetWarningAt(<< 1, 3, 5 >>)

----------------------------------------------------------------------------
(* A further claim about validateCell (SpecCell).                          *)

\* s[lo..hi] is one or more characters, none of them white space or '@'
PlainRun(s, lo, hi) ==
    lo <= hi /\ \A k \in lo..hi : ~IsSpace(Ch(s, k)) /\ Ch(s, k) # "@"

\* local@domain.tld: a run, '@', a run, '.', a run
HasEmailShape(s) ==
    \E i \in 1..Len(s), j \in 1..Len(s) :
        /\ PlainRun(s, 1, i - 1) /\ Ch(s, i) = "@"
        /\ PlainRun(s, i + 1, j - 1) /\ Ch(s, j) = "."
        /\ PlainRun(s, j + 1, Len(s))

HasMalformedError ==
    \E i \in 1..Len(ret) : ret[i].type = "malformed" /\ ret[i].severity = "error"

HasEmailIssue ==
    \E i \in 1..Len(ret) :
        CheckRank(ret[i]) = 1 /\ ret[i].type = "malformed" /\ ret[i].severity = "error"

\* C23 as claimed: a cell that passes the emptiness gate, under a header
\* containing 'email', has a malformed issue of severity error iff its
\* trimmed text is not of the shape local@domain.tld.
C23_MalformedIffNoEmailShape ==
    (pc = "done" /\ ~IsEmptyCell(arg.cell) /\ ArgHeaderHas("email")) =>
        (HasMalformedError <=> ~HasEmailShape(ArgText))

\* C23 amended: such a cell has the issue of the email check (malformed,
\* error, 'Invalid email format') iff its trimmed text is not of the shape
\* local@domain.tld; 'user@example.com' has none, 'user@' and
\* 'user.example.com' have one.  (A text of the shape that opens with '{' or
\* '[' gets the malformed issue of the JSON check.)
C23_EmailIssueIffNoEmailShape ==
    (pc = "done" /\ ~IsEmptyCell(arg.cell) /\ ArgHeaderHas("email")) =>
        /\ HasEmailIssue <=> ~HasEmailShape(ArgText)
        /\ \A i \in 1..Len(ret) :
               CheckRank(ret[i]) = 1 =>
                   ret[i].type = "malformed" /\ ret[i].severity = "error"
        /\ ArgText = "user@example.com" => ~HasEmailIssue
        /\ ArgText \in { "user@", "user.example.com" } => HasEmailIssue

\* 'user@' under the header email: one issue, that of the email check
C23_Witness ==
    /\ pc = "done"
    /\ arg.header = "email"
    /\ arg.cell = Str("user@")
    /\ Len(ret) = 1
    /\ HasEmailIssue

----------------------------------------------------------------------------
(* The cleaned CSV of the export and the CSV branch of the upload.         *)
(* Papa.parse is the papaparse library, called with header: false and      *)
(* skipEmptyLines: true: fields separated by commas, rows by line feeds, a *)
(* field in double quotes may hold commas, line feeds and doubled quotes,  *)
(* and a row that is one empty field is dropped.                           *)

\* cell?.toString() || ''
CellText(cell) == IF cell.t = "null" THEN "" ELSE toString(cell)

\* cellStr.replace(/"/g, '""')
RECURSIVE doubleQuotes(_)
doubleQuotes(s) ==
    IF s = "" THEN ""
    ELSE (IF Ch(s, 1) = "\"" THEN "\"\"" ELSE Ch(s, 1)) \o doubleQuotes(Tail(s))

\* the text generateCleanedCSV writes for one cell
CsvCell(cell) ==
    LET cellStr == CellText(cell) IN
    IF includes(cellStr, ",") \/ includes(cellStr, "\"") \/ includes(cellStr, "\n")
    THEN "\"" \o doubleQuotes(cellStr) \o "\""
    ELSE cellStr

\* Array.prototype.join on texts
RECURSIVE join(_, _)
join(parts, sep) ==
    IF Len(parts) = 0 THEN ""
    ELSE IF Len(parts) = 1 THEN parts[1]
    ELSE parts[1] \o sep \o join(Tail(parts), sep)

generateCleanedCSV(file) ==
    LET headers == join([c \in 1..Len(file.headers) |->
                            IF file.headers[c] = EmptySlot THEN "" ELSE file.headers[c]], ",")
        rows == [r \in 1..Len(file.data) |->
                    join([c \in 1..Len(file.data[r]) |-> CsvCell(file.data[r][c])], ",")]
    IN  join(<< headers >> \o rows, "\n")

\* the rows Papa.parse reads from position i on; field and row are what has
\* been read of the current field and row, inQuotes says that a quote is open
RECURSIVE papaScan(_, _, _, _, _)
papaScan(s, i, field, row, inQuotes) ==
    LET c == Ch(s, i) IN
    IF i > Len(s) THEN << Append(row, field) >>
    ELSE IF inQuotes
    THEN (IF c = "\"" /\ Ch(s, i + 1) = "\"" THEN papaScan(s, i + 2, field \o "\"", row, TRUE)
          ELSE IF c = "\"" THEN papaScan(s, i + 1, field, row, FALSE)
          ELSE papaScan(s, i + 1, field \o c, row, TRUE))
    ELSE IF c = "\"" /\ field = "" THEN papaScan(s, i + 1, "", row, TRUE)
    ELSE IF c = "," THEN papaScan(s, i + 1, "", Append(row, field), FALSE)
    ELSE IF c = "\n" THEN << Append(row, field) >> \o papaScan(s, i + 1, "", << >>, FALSE)
    ELSE papaScan(s, i + 1, field \o c, row, FALSE)

\* results.data of Papa.parse(text, { header: false, skipEmptyLines: true })
PapaParse(text) ==
    SelectSeq(IF text = "" THEN << >> ELSE papaScan(text, 1, "", << >>, FALSE),
              LAMBDA r : ~(Len(r) = 1 /\ r[1] = ""))

\* s.replace(/[^a-z0-9]/g, '_')
RECURSIVE replaceNonAlnum(_)
replaceNonAlnum(s) ==
    IF s = "" THEN ""
    ELSE (IF includes(LowerChars, Ch(s, 1)) \/ IsDigit(Ch(s, 1)) THEN Ch(s, 1) ELSE "_")
             \o replaceNonAlnum(Tail(s))

\* header.toString().trim().toLowerCase().replace(/[^a-z0-9]/g, '_')
normalizeHeader(header) == replaceNonAlnum(toLowerCase(trim(header)))

\* headers and data processFile takes from a CSV text; << >> when it resolves null
parseCsv(text) ==
    LET results == PapaParse(text) IN
    IF Len(results) > 0
    THEN << [headers |-> [c \in 1..Len(results[1]) |-> normalizeHeader(results[1][c])],
             data |-> [r \in 1..(Len(results) - 1) |->
                          [c \in 1..Len(results[r + 1]) |-> Str(results[r + 1][c])]]] >>
    ELSE << >>

\* most rows of a file in the model
MaxCsvRows == 2

CsvHeaderLists == { << "name" >>, << "id", "name" >> }

\* cells as the CSV upload and the cell editor produce them: texts
CsvCells == { Str("a"), Str(""), Str("x,y"), Str("q\"r"), Str("l\nm") }

CsvFiles ==
    UNION { { [headers |-> h, data |-> d] :
                d \in UNION { [1..m -> [1..Len(h) -> CsvCells]] : m \in 0..MaxCsvRows } } :
            h \in CsvHeaderLists }

InitCsv ==
    /\ currentStep = 4
    /\ files = << >>
    /\ validationErrors = << >>
    /\ priorities = DefaultWeights
    /\ arg \in CsvFiles
    /\ ret = << >>
    /\ InitLocal
    /\ pc = "ready"

\* the cleaned CSV of the file, handed to the upload
CallRoundTrip ==
    /\ pc = "ready"
    /\ ret' = parseCsv(generateCleanedCSV(arg))
    /\ pc' = "done"
    /\ UNCHANGED <<currentStep, files, validationErrors, priorities, arg>>
    /\ UNCHANGED <<rules, searchQuery, gridVars, formVars>>
    /\ UNCHANGED searchVars
    /\ UNCHANGED uploadVars

SpecCsv == InitCsv /\ [][CallRoundTrip]_vars

----------------------------------------------------------------------------
(* Claims about the CSV round trip (SpecCsv): arg is the file, ret what    *)
(* the upload reads from its cleaned CSV.                                  *)

\* C24: the upload reads from the cleaned CSV of a file the headers and the
\* cells of the file, row by row.
C24_CsvRoundTrip ==
    pc = "done" => ret = << [headers |-> arg.headers, data |-> arg.data] >>

----------------------------------------------------------------------------
(* detectFileType as a function: one call on a file name and its headers.  *)

detectFileType(fileName, headers) ==
    LET name == toLowerCase(fileName)
        headerStr == toLowerCase(join(headers, " "))
    IN  IF includes(name, "client") \/ includes(headerStr, "client")
              \/ includes(headerStr, "customer")
        THEN "clients"
        ELSE IF includes(name, "worker") \/ includes(name, "employee")
                  \/ includes(headerStr, "worker") \/ includes(headerStr, "employee")
        THEN "workers"
        ELSE "tasks"

DetectFileNames ==
    { "clients.csv", "Customers.csv", "workers.csv", "Employees.xlsx", "tasks.csv",
      "data.csv", "client_workers.csv", "customer_employees.csv" }

DetectHeaderLists ==
    { << "id", "name" >>, << "client_id", "name" >>, << "customer", "email" >>,
      << "worker_id", "skills" >>, << "employee", "name" >>,
      << "id", "worker", "client" >>, << "task_id", "title" >> }

InitDetect ==
    /\ currentStep = 0
    /\ files = << >>
    /\ validationErrors = << >>
    /\ priorities = DefaultWeights
    /\ arg \in [fileName : DetectFileNames, headers : DetectHeaderLists]
    /\ ret = << >>
    /\ InitLocal
    /\ pc = "ready"

CallDetectFileType ==
    /\ pc = "ready"
    /\ ret' = << detectFileType(arg.fileName, arg.headers) >>
    /\ pc' = "done"
    /\ UNCHANGED <<currentStep, files, validationErrors, priorities, arg>>
    /\ UNCHANGED <<rules, searchQuery, gridVars, formVars>>
    /\ UNCHANGED searchVars
    /\ UNCHANGED uploadVars

SpecDetect == InitDetect /\ [][CallDetectFileType]_vars

----------------------------------------------------------------------------
(* Claims about detectFileType (SpecDetect): arg holds the file name and   *)
(* the headers, ret the category.                                          *)

\* the file name or the joined headers of arg contain the word
NameOrHeadersHave(word) ==
    \/ includes(toLowerCase(arg.fileName), word)
    \/ includes(toLowerCase(join(arg.headers, " ")), word)

\* C25: the category is clients if the file name or the joined headers
\* contain 'client' or 'customer'; otherwise workers if they contain 'worker'
\* or 'employee'; otherwise tasks.
C25_CategoryInference ==
    pc = "done" =>
        ret = << IF NameOrHeadersHave("client") \/ NameOrHeadersHave("customer")
                 THEN "clients"
                 ELSE IF NameOrHeadersHave("worker") \/ NameOrHeadersHave("employee")
                 THEN "workers"
                 ELSE "tasks" >>

----------------------------------------------------------------------------
(* NaturalLanguageSearch: the translation of a query, and handleSearch     *)
(* with its delay.                                                         *)

\* \w
WordChar(c) ==
    c # "" /\ (includes(LowerChars, c) \/ includes(UpperChars, c) \/ IsDigit(c) \/ c = "_")

RECURSIVE WordEnd(_, _)
WordEnd(s, i) == IF WordChar(Ch(s, i)) THEN WordEnd(s, i + 1) ELSE i

\* the first index of a set of indices
First(P) == CHOOSE p \in P : \A q \in P : p <= q

\* s.match(/duration\s*>\s*(\d+)/): << >> (null) or << the digits >>
durationMatch(s) ==
    LET gt(p) == SkipWs(s, p + 8)
        num(p) == SkipWs(s, gt(p) + 1)
        P == { p \in 1..Len(s) :
                 /\ Slice(s, p, p + 7) = "duration"
                 /\ Ch(s, gt(p)) = ">"
                 /\ DigitsEnd(s, num(p)) > num(p) }
    IN  IF P = {} THEN << >>
        ELSE << SubSeq(s, num(First(P)), DigitsEnd(s, num(First(P))) - 1) >>

\* s.match(/skill[s]?\s+(\w+)/): << >> (null) or << the word >>
skillMatch(s) ==
    LET gap(p) == IF Ch(s, p + 5) = "s" THEN p + 6 ELSE p + 5
        word(p) == SkipWs(s, gap(p))
        P == { p \in 1..Len(s) :
                 /\ Slice(s, p, p + 4) = "skill"
                 /\ IsSpace(Ch(s, gap(p)))
                 /\ WordChar(Ch(s, word(p))) }
    IN  IF P = {} THEN << >>
        ELSE << SubSeq(s, word(First(P)), WordEnd(s, word(First(P))) - 1) >>

\* processNaturalLanguage asking for the priority before the duration
processNaturalLanguagePriorityFirst(text) ==
    LET lowerQuery == toLowerCase(text)
        match == durationMatch(lowerQuery)
        skillMatched == skillMatch(lowerQuery)
    IN  IF includes(lowerQuery, "priority") /\ includes(lowerQuery, "high")
        THEN "priority:high"
        ELSE IF includes(lowerQuery, "priority") /\ includes(lowerQuery, "low")
        THEN "priority:low"
        ELSE IF includes(lowerQuery, "duration") /\ includes(lowerQuery, ">") /\ match # << >>
        THEN "duration>" \o match[1]
        ELSE IF includes(lowerQuery, "skill") /\ skillMatched # << >>
        THEN skillMatched[1]
        ELSE IF includes(lowerQuery, "completed") \/ includes(lowerQuery, "done")
        THEN "status:completed"
        ELSE IF includes(lowerQuery, "pending") \/ includes(lowerQuery, "waiting")
        THEN "status:pending"
        ELSE text

processNaturalLanguage(text) ==
    LET lowerQuery == toLowerCase(text)
        match == durationMatch(lowerQuery)
        skillMatched == skillMatch(lowerQuery)
    IN  IF includes(lowerQuery, "duration") /\ includes(lowerQuery, ">") /\ match # << >>
        THEN "duration>" \o match[1]
        ELSE IF (includes(lowerQuery, "priority") \/ includes(lowerQuery, "high priority"))
                  /\ includes(lowerQuery, "high")
        THEN "priority:high"
        ELSE IF (includes(lowerQuery, "priority") \/ includes(lowerQuery, "high priority"))
                  /\ includes(lowerQuery, "low")
        THEN "priority:low"
        ELSE IF includes(lowerQuery, "skill") /\ skillMatched # << >>
        THEN skillMatched[1]
        ELSE IF includes(lowerQuery, "completed") \/ includes(lowerQuery, "done")
        THEN "status:completed"
        ELSE IF includes(lowerQuery, "pending") \/ includes(lowerQuery, "waiting")
        THEN "status:pending"
        ELSE text

\* what a handleSearch that was called in the given mode hands to onSearch
\* when its delay is over
afterDelay(text, aiMode) == IF aiMode THEN processNaturalLanguage(text) ELSE text

\* what one call of handleSearch hands to onSearch, at once or after its delay
handedToOnSearch(text, aiMode) == IF trim(text) = "" THEN "" ELSE afterDelay(text, aiMode)

exampleQueries ==
    << "Show tasks with Duration > 2", "Find high priority clients",
       "Workers with JavaScript skills", "Tasks assigned to Client123",
       "Show completed tasks", "Find workers available on weekends" >>

\* queries a user types
TypedQueries ==
    { "duration>10", "duration > x", "high priority duration > 3", "low priority",
      "priority 3", "Priority high and low", "skills React", "skill python done",
      "priority skill go", "not done", "pending tasks", "waiting", "done and pending",
      "High", "", "  ", "Bob", " Bob ", "> 5 duration", "slow priority",
      "duration >  42 hours", "skills  C_3 x" }

QueryTexts == { exampleQueries[i] : i \in 1..Len(exampleQueries) } \cup TypedQueries

InitTranslate ==
    /\ currentStep = 1
    /\ files = << >>
    /\ validationErrors = << >>
    /\ priorities = DefaultWeights
    /\ arg \in [searchQuery : QueryTexts, isAIMode : BOOLEAN]
    /\ ret = << >>
    /\ InitLocal
    /\ pc = "ready"

\* one handleSearch from its call to the end of its delay
CallHandleSearch ==
    /\ pc = "ready"
    /\ ret' = << handedToOnSearch(arg.searchQuery, arg.isAIMode) >>
    /\ pc' = "done"
    /\ UNCHANGED <<currentStep, files, validationErrors, priorities, arg>>
    /\ UNCHANGED <<rules, searchQuery, gridVars, formVars, searchVars>>
    /\ UNCHANGED uploadVars

SpecTranslate == InitTranslate /\ [][CallHandleSearch]_vars

----------------------------------------------------------------------------
(* Claims about the translation of a query (SpecTranslate): arg holds the  *)
(* query and the mode, ret what onSearch was given.                        *)

ArgLower == toLowerCase(arg.searchQuery)

ArgHas(word) == includes(ArgLower, word)

\* the translation as the claim lists it, rule after rule
Translated ==
    IF durationMatch(ArgLower) # << >> THEN "duration>" \o durationMatch(ArgLower)[1]
    ELSE IF ArgHas("priority") /\ ArgHas("high") THEN "priority:high"
    ELSE IF ArgHas("priority") /\ ArgHas("low") THEN "priority:low"
    ELSE IF skillMatch(ArgLower) # << >> THEN skillMatch(ArgLower)[1]
    ELSE IF ArgHas("completed") \/ ArgHas("done") THEN "status:completed"
    ELSE IF ArgHas("pending") \/ ArgHas("waiting") THEN "status:pending"
    ELSE arg.searchQuery

\* C26 as claimed: in enhanced mode onSearch gets the translation of the
\* query, the query itself when no rule matches; in simple mode it gets the
\* query unchanged.
C26_QueryTranslation ==
    pc = "done" =>
        ret = << IF arg.isAIMode THEN Translated ELSE arg.searchQuery >>

\* C26 amended: so it is for every query that is not blank; for a blank
\* query (empty, or white space only) onSearch gets the empty text in either
\* mode.
C26_QueryTranslationUnlessBlank ==
    pc = "done" =>
        ret = << IF trim(arg.searchQuery) = "" THEN ""
                 ELSE IF arg.isAIMode THEN Translated ELSE arg.searchQuery >>

\* the first example in enhanced mode, and a query with a duration and a
\* priority, where the duration rule comes first
C26_Witness ==
    /\ pc = "done"
    /\ arg.isAIMode
    /\ \/ arg.searchQuery = "Show tasks with Duration > 2" /\ ret = << "duration>2" >>
       \/ arg.searchQuery = "high priority duration > 3" /\ ret = << "duration>3" >>

----------------------------------------------------------------------------
(* The upload component: dropped files are processed one after another.    *)
(* A dropped file is its name, its text (read as CSV), its first sheet     *)
(* (read as a workbook: rows of cells) and whether the workbook reader     *)
(* can read it at all.                                                     *)

\* file.name.split('.').pop()
RECURSIVE splitPop(_)
splitPop(s) ==
    IF includes(s, ".")
    THEN LET i == CHOOSE k \in 1..Len(s) :
                      Ch(s, k) = "." /\ \A j \in 1..(k - 1) : Ch(s, j) # "."
         IN  splitPop(SubSeq(s, i + 1, Len(s)))
    ELSE s

\* an id no file in `used` has (Math.random().toString(36).substr(2, 9): ids
\* are taken to be distinct)
FreshId(used) ==
    "f" \o ToString(CHOOSE n \in 1..(Cardinality(used) + 1) :
                        /\ ("f" \o ToString(n)) \notin used
                        /\ \A m \in 1..(n - 1) : ("f" \o ToString(m)) \in used)

\* XLSX.read throws on what it cannot read; the catch makes it null
xlsxThrows(file) == ~file.readable

\* processFile reading whatever is dropped as CSV
processFileAsCsv(file, id) ==
    LET parsed == parseCsv(file.text) IN
    IF Len(parsed) > 0
    THEN << DataFile(id, file.name, detectFileType(file.name, parsed[1].headers),
                     parsed[1].headers, parsed[1].data) >>
    ELSE << >>

\* what the promise of processFile resolves to: << the DataFile >>, or << >>
\* for null (an extension that is neither csv, xlsx nor xls; a text or a sheet
\* without rows; an error caught)
processFile(file, id) ==
    LET fileExtension == toLowerCase(splitPop(file.name)) IN
    IF fileExtension = "csv"
    THEN LET parsed == parseCsv(file.text) IN
         IF Len(parsed) > 0
         THEN << DataFile(id, file.name, detectFileType(file.name, parsed[1].headers),
                          parsed[1].headers, parsed[1].data) >>
         ELSE << >>
    ELSE IF fileExtension = "xlsx" \/ fileExtension = "xls"
    THEN IF xlsxThrows(file) THEN << >>
         ELSE LET jsonData == file.sheet IN
              IF Len(jsonData) > 0
              THEN LET headers == [c \in 1..Len(jsonData[1]) |->
                                      normalizeHeader(jsonData[1][c].v)]
                   IN  << DataFile(id, file.name, detectFileType(file.name, headers),
                                   headers, Tail(jsonData)) >>
              ELSE << >>
    ELSE << >>

\* the toasts of processFile and of the end of onDrop
errorToast(file) == "Error processing " \o file.name

successToast(n) == "Successfully processed " \o ToString(n) \o " file(s)"

\* the ids in use: of the files listed and of those parsed by a drop under way
IdsInUse ==
    { uploadedFiles[i].id : i \in 1..Len(uploadedFiles) }
        \cup UNION { { drops[d].processedFiles[i].id :
                          i \in 1..Len(drops[d].processedFiles) } : d \in 1..Len(drops) }

\* how many files the drops from d on were given
RECURSIVE PendingFrom(_)
PendingFrom(d) ==
    IF d > Len(drops) THEN 0 ELSE Len(drops[d].acceptedFiles) + PendingFrom(d + 1)

\* most onDrop calls under way at once, most files listed or on their way
MaxDrops == 1

MaxUploaded == 2

\* onDrop up to its first await: the notice is shown and the first file is
\* being read; with no accepted file the whole call runs at once
onDrop(acceptedFiles) ==
    /\ pc = "wizard"
    /\ currentStep = 0
    /\ Len(drops) < MaxDrops
    /\ Len(uploadedFiles) + PendingFrom(1) + Len(acceptedFiles) <= MaxUploaded
    /\ IF Len(acceptedFiles) = 0
       THEN /\ uploadedFiles' = uploadedFiles
            /\ isProcessing' = FALSE
            /\ drops' = drops
       ELSE /\ uploadedFiles' = uploadedFiles
            /\ isProcessing' = TRUE
            /\ drops' = Append(drops, [acceptedFiles |-> acceptedFiles, next |-> 1,
                                       processedFiles |-> << >>])
    /\ ret' = << >>
    /\ UNCHANGED <<currentStep, files, validationErrors, priorities, arg, pc>>
    /\ UNCHANGED <<rules, searchQuery, gridVars, formVars>>
    /\ UNCHANGED searchVars

\* the awaited processFile of drop d settles: its file is kept when it was
\* parsed; the next file is read, or after the last one the parsed files are
\* appended to the list and the notice is taken away
processFileSettles(d) ==
    /\ pc = "wizard"
    /\ currentStep = 0
    /\ d \in 1..Len(drops)
    /\ LET drop == drops[d]
           file == drop.acceptedFiles[drop.next]
           processedFile == processFile(file, FreshId(IdsInUse))
           processedFiles == drop.processedFiles \o processedFile
           caught == IF toLowerCase(splitPop(file.name)) \in { "xlsx", "xls" }
                        /\ xlsxThrows(file)
                     THEN << errorToast(file) >> ELSE << >>
       IN  IF drop.next < Len(drop.acceptedFiles)
           THEN /\ drops' = [drops EXCEPT ![d] = [acceptedFiles |-> drop.acceptedFiles,
                                                  next |-> drop.next + 1,
                                                  processedFiles |-> processedFiles]]
                /\ uploadedFiles' = uploadedFiles
                /\ isProcessing' = isProcessing
                /\ ret' = caught
           ELSE /\ drops' = SubSeq(drops, 1, d - 1) \o SubSeq(drops, d + 1, Len(drops))
                /\ uploadedFiles' = uploadedFiles \o processedFiles
                /\ isProcessing' = FALSE
                /\ ret' = caught \o (IF Len(processedFiles) > 0
                                     THEN << successToast(Len(processedFiles)) >>
                                     ELSE << >>)
    /\ UNCHANGED <<currentStep, files, validationErrors, priorities, arg, pc>>
    /\ UNCHANGED <<rules, searchQuery, gridVars, formVars>>
    /\ UNCHANGED searchVars

removeFile(fileId) ==
    /\ pc = "wizard"
    /\ currentStep = 0
    /\ \E i \in 1..Len(uploadedFiles) : uploadedFiles[i].id = fileId
    /\ uploadedFiles' = SelectSeq(uploadedFiles, LAMBDA file : file.id # fileId)
    /\ UNCHANGED <<isProcessing, drops>>
    /\ UNCHANGED <<currentStep, files, validationErrors, priorities, arg, ret, pc>>
    /\ UNCHANGED <<rules, searchQuery, gridVars, formVars>>
    /\ UNCHANGED searchVars

\* Continue to Validation
handleContinue ==
    /\ Len(uploadedFiles) > 0
    /\ handleFilesUploaded(uploadedFiles)

DroppedFile(name, text, sheet, readable) ==
    [name |-> name, text |-> text, sheet |-> sheet, readable |-> readable]

ClientsCsv == DroppedFile("clients.csv", "Name,E-mail\nBob,b@x.io", << >>, TRUE)

EmptyCsv == DroppedFile("empty.csv", "", << >>, TRUE)

TasksXlsx ==
    DroppedFile("tasks.xlsx", "", << << Str("Task ID"), Str("Duration") >>,
                                     << Str("T1"), Num("2") >> >>, TRUE)

BrokenXlsx == DroppedFile("broken.xlsx", "", << >>, FALSE)

BlankXls == DroppedFile("blank.XLS", "", << >>, TRUE)

NotesTxt == DroppedFile("notes.txt", "a,b\n1,2", << >>, TRUE)

DropBatches ==
    { << >>, << ClientsCsv >>, << EmptyCsv >>, << BrokenXlsx, ClientsCsv >>,
      << TasksXlsx, BlankXls >>, << NotesTxt, TasksXlsx >>, << TasksXlsx, BrokenXlsx >>,
      << ClientsCsv, BrokenXlsx, TasksXlsx >> }

NextUpload ==
    \/ \E acceptedFiles \in DropBatches : onDrop(acceptedFiles)
    \/ \E d \in 1..MaxDrops : processFileSettles(d)
    \/ \E fileId \in IdsInUse : removeFile(fileId)
    \/ handleContinue
    \/ \E id \in 0..1 : StepClick(id)

SpecUpload == Init /\ [][NextUpload]_vars
----------------------------------------------------------------------------
(* Claims about the upload component (SpecUpload).                         *)

\* a dropped file that fails to parse: its extension is not one that is read,
\* the workbook reader cannot read it, or it has no row
FailsToParse(file) ==
    LET fileExtension == toLowerCase(splitPop(file.name)) IN
    \/ fileExtension \notin { "csv", "xlsx", "xls" }
    \/ fileExtension = "csv" /\ PapaParse(file.text) = << >>
    \/ fileExtension \in { "xlsx", "xls" } /\ (~file.readable \/ file.sheet = << >>)

\* the list `after` is the list `before` followed by files named as `batch`
FollowedBy(after, before, batch) ==
    /\ Len(after) = Len(before) + Len(batch)
    /\ SubSeq(after, 1, Len(before)) = before
    /\ \A i \in 1..Len(batch) : after[Len(before) + i].name = batch[i].name

\* C27: when the last file of a dropped batch has been processed, the list of
\* uploaded files is the list as it was followed by the files of the batch that
\* did not fail to parse, in the order of the batch, and the processing notice
\* is off; so it is after a drop of no file.
C27_BatchIsProcessedThrough ==
    [][/\ \A d \in 1..Len(drops) :
            (processFileSettles(d) /\ drops[d].next = Len(drops[d].acceptedFiles))
                => /\ FollowedBy(uploadedFiles', uploadedFiles,
                                 SelectSeq(drops[d].acceptedFiles,
                                           LAMBDA file : ~FailsToParse(file)))
                   /\ isProcessing' = FALSE
       /\ onDrop(<< >>) => (uploadedFiles' = uploadedFiles /\ isProcessing' = FALSE)]_vars

\* the batch tasks.xlsx, broken.xlsx has ended: the workbook that cannot be
\* read was reported and left out, the other one is listed
C27_Witness ==
    /\ currentStep = 0
    /\ drops = << >>
    /\ ~isProcessing
    /\ Len(uploadedFiles) = 1
    /\ uploadedFiles[1].name = "tasks.xlsx"
    /\ uploadedFiles[1].headers = << "task_id", "duration" >>
    /\ ret = << errorToast(BrokenXlsx), successToast(1) >>
----------------------------------------------------------------------------
(* Claims about the cell a saved edit lands on (SpecGrid).                 *)

\* row i of the active file is shown under the filter
RowShown(i) ==
    searchQuery = "" \/ RowMatches(currentFile[1].data[i], toLowerCase(searchQuery))

\* the row of the active file (counted from 1) that displayed row `row`
\* (counted from 0) shows
FileRowShown(row) ==
    CHOOSE i \in 1..Len(currentFile[1].data) :
        /\ RowShown(i)
        /\ Cardinality({ j \in 1..i : RowShown(j) }) = row + 1

\* C28: after a click on a displayed cell, what a save writes is the text of
\* the edit box into the cell of the file that the clicked cell shows, and
\* nothing else, whatever filter is applied.
C28_SaveHitsClickedCell ==
    [][\A row \in 0..(Len(filteredData) - 1) :
         \A col \in 0..(Len(filteredData[row + 1]) - 1) :
            handleCellClick(row, col)
                => filesAfterSave'
                     = handleDataUpdate(files, currentFile[1].id,
                                        WithCell(currentFile[1].data, FileRowShown(row) - 1,
                                                 col, Str(editValue')))]_vars

\* C29: a switch of the file tab while the edit box is on screen, before and
\* after, leaves what a save writes as it was: the file and the cell of the
\* click.
C29_TabSwitchKeepsSaveTarget ==
    [][\A i \in 1..Len(files) :
         (setActiveFile(files[i].id) /\ EditBoxShown /\ EditBoxShown')
             => filesAfterSave' = filesAfterSave]_vars

----------------------------------------------------------------------------
(* The search component, mounted at step 1 over the grid.  A call of       *)
(* handleSearch on a query that is not blank waits 500 ms before it hands  *)
(* its query to onSearch (Home's setSearchQuery); the calls waiting are    *)
(* inFlight, oldest first: equal delays end in the order they began.       *)

\* most calls of handleSearch waiting at one time
MaxInFlight == 2

\* the input: onChange={(e) => setQuery(e.target.value)}
setQuery(text) ==
    /\ GridReady
    /\ query' = text
    /\ UNCHANGED <<isAIMode, isSearching, inFlight>>
    /\ UNCHANGED <<currentStep, files, validationErrors, priorities, arg, ret, pc>>
    /\ UNCHANGED <<rules, searchQuery, gridVars, formVars>>
    /\ UNCHANGED uploadVars

\* the mode button: onClick={() => setIsAIMode(!isAIMode)}
setIsAIMode ==
    /\ GridReady
    /\ isAIMode' = ~isAIMode
    /\ UNCHANGED <<query, isSearching, inFlight>>
    /\ UNCHANGED <<currentStep, files, validationErrors, priorities, arg, ret, pc>>
    /\ UNCHANGED <<rules, searchQuery, gridVars, formVars>>
    /\ UNCHANGED uploadVars

\* handleSearch up to its await: a blank query is handed on as '' at once;
\* any other starts its delay, with the mode of the render it was called in
handleSearch(searchText) ==
    /\ GridReady
    /\ IF trim(searchText) = ""
       THEN /\ searchQuery' = ""
            /\ UNCHANGED <<isSearching, inFlight>>
       ELSE /\ Len(inFlight) < MaxInFlight
            /\ isSearching' = TRUE
            /\ inFlight' = Append(inFlight, [searchQuery |-> searchText,
                                             isAIMode |-> isAIMode, live |-> TRUE])
            /\ searchQuery' = searchQuery
    /\ UNCHANGED isAIMode
    /\ UNCHANGED <<currentStep, files, validationErrors, priorities, arg, ret, pc>>
    /\ UNCHANGED <<rules, gridVars, formVars>>
    /\ UNCHANGED uploadVars

\* Enter in the input: handleSearch(query), also while a search is under way
pressEnter ==
    /\ handleSearch(query)
    /\ UNCHANGED query

\* the Search button: disabled={!query.trim() || isSearching}
clickSearch ==
    /\ trim(query) # ""
    /\ ~isSearching
    /\ handleSearch(query)
    /\ UNCHANGED query

\* an example button, shown when isAIMode && !query: setQuery(example);
\* handleSearch(example)
clickExample(example) ==
    /\ isAIMode
    /\ query = ""
    /\ query' = example
    /\ handleSearch(example)

\* the X in the input, shown when the input holds a text
clearSearch ==
    /\ GridReady
    /\ query # ""
    /\ query' = ""
    /\ searchQuery' = ""
    /\ UNCHANGED <<isAIMode, isSearching, inFlight>>
    /\ UNCHANGED <<currentStep, files, validationErrors, priorities, arg, ret, pc>>
    /\ UNCHANGED <<rules, gridVars, formVars>>
    /\ UNCHANGED uploadVars

\* the delay of the oldest waiting call ends: handleSearch after its await
searchDelayEnds ==
    /\ pc = "wizard"
    /\ Len(inFlight) > 0
    /\ searchQuery' = afterDelay(Head(inFlight).searchQuery, Head(inFlight).isAIMode)
    /\ isSearching' = IF Head(inFlight).live THEN FALSE ELSE isSearching
    /\ inFlight' = Tail(inFlight)
    /\ UNCHANGED <<query, isAIMode>>
    /\ UNCHANGED <<currentStep, files, validationErrors, priorities, arg, ret, pc>>
    /\ UNCHANGED <<rules, gridVars, formVars>>
    /\ UNCHANGED uploadVars

\* texts typed into the search input, and the example buttons pressed
SearchInputs == { "", " ", "bob" }

ExamplesPressed == { exampleQueries[1], exampleQueries[2] }

NextSearch ==
    \/ handleFilesUploaded(<< GridFile("c") >>)
    \/ \E id \in 0..1 : StepClick(id)
    \/ \E text \in SearchInputs : setQuery(text)
    \/ setIsAIMode
    \/ pressEnter
    \/ clickSearch
    \/ \E example \in ExamplesPressed : clickExample(example)
    \/ clearSearch
    \/ searchDelayEnds

SpecSearch == Init /\ [][NextSearch]_vars

----------------------------------------------------------------------------
(* Claims about clearing the search (SpecSearch).                          *)

\* the calls waiting in their delay that will hand onSearch the empty string
PendingKeepingEmpty ==
    { inFlight[i] : i \in { j \in 1..Len(inFlight) :
          afterDelay(inFlight[j].searchQuery, inFlight[j].isAIMode) = "" } }

\* C30: once the search is cleared (the X, or a blank query submitted), the
\* filter applied is the empty string, and no search submitted before is
\* left to replace it when its delay ends.
C30_ClearIsFinal ==
    [][(clearSearch \/ (pressEnter /\ trim(query) = ""))
          => /\ searchQuery' = ""
             /\ \A i \in 1..Len(inFlight') : inFlight'[i] \in PendingKeepingEmpty]_vars

====
